---- MODULE Spec2Model ----
(***************************************************************************)
(* Model of the MCP server manager (src/src/utils/mcp-server.ts): the      *)
(* registry file claude_desktop_config.json, the CRUD functions over it,   *)
(* the liveness probe checkServerStatus and the lifecycle functions        *)
(* startServer, stopServer and restartServer, together with the part of    *)
(* the operating system they talk to (process table, listening ports,      *)
(* signals).                                                               *)
(*                                                                         *)
(* Strings are sequences of one-character strings, so that the slug, the   *)
(* basename, the grep patterns and the port extraction are computed as     *)
(* the code computes them.                                                 *)
(***************************************************************************)
EXTENDS Integers, Sequences, FiniteSets, TLC

VARIABLES
    file,      \* the registry document on disk
    procs,     \* the OS process table: the set of running processes
    servers,   \* the list the UI last loaded (getServers + checkServerStatus)
    calls,     \* one record per caller: the call in progress and its trace
    nOps       \* number of calls started so far (also the clock of "now")

vars == <<file, procs, servers, calls, nOps>>

(***************************************************************************)
(* Bounds of the model.                                                    *)
(***************************************************************************)
MaxOps == 2

(***************************************************************************)
(* Strings.                                                                *)
(***************************************************************************)
UpperLetters == <<"A","B","C","D","E","F","G","H","I","J","K","L","M",
                  "N","O","P","Q","R","S","T","U","V","W","X","Y","Z">>
LowerLetters == <<"a","b","c","d","e","f","g","h","i","j","k","l","m",
                  "n","o","p","q","r","s","t","u","v","w","x","y","z">>
Digits == {"0","1","2","3","4","5","6","7","8","9"}
Whitespace == {" ", "\t", "\n"}

Range(s) == {s[i] : i \in 1..Len(s)}

\* mutant: a lower-casing that turns "-" into "0"
toLowerCaseChar_DashToZero(c) ==
    IF c = "-" THEN "0"
    ELSE IF \E i \in 1..Len(UpperLetters) : UpperLetters[i] = c
    THEN LowerLetters[CHOOSE i \in 1..Len(UpperLetters) : UpperLetters[i] = c]
    ELSE c

\* String.prototype.toLowerCase, one character
toLowerCaseChar(c) ==
    IF \E i \in 1..Len(UpperLetters) : UpperLetters[i] = c
    THEN LowerLetters[CHOOSE i \in 1..Len(UpperLetters) : UpperLetters[i] = c]
    ELSE c

\* mutant: a replacement that lets "_" through
replaceNonAlnumChar_KeepsUnderscore(c) ==
    IF c \in Range(LowerLetters) \cup Digits \cup {"_"} THEN c ELSE "-"

\* .replace(/[^a-z0-9]/g, "-"), one character
replaceNonAlnumChar(c) ==
    IF c \in Range(LowerLetters) \cup Digits THEN c ELSE "-"

\* server.name.toLowerCase().replace(/[^a-z0-9]/g, "-")
slug(name) ==
    [i \in 1..Len(name) |-> replaceNonAlnumChar(toLowerCaseChar(name[i]))]

\* Array.prototype.join(" ")
RECURSIVE joinSpace(_)
joinSpace(parts) ==
    IF Len(parts) = 0 THEN <<>>
    ELSE IF Len(parts) = 1 THEN parts[1]
    ELSE parts[1] \o <<" ">> \o joinSpace(Tail(parts))

\* haystack.includes(needle)
Contains(hay, needle) ==
    \E i \in 0..(Len(hay) - Len(needle)) :
        \A j \in 1..Len(needle) : hay[i + j] = needle[j]

\* /^\d+$/.test(s)
isAllDigits(s) == Len(s) > 0 /\ \A i \in 1..Len(s) : s[i] \in Digits

\* index of the last "/" of s, 0 when there is none
LastSlash(s) ==
    IF \E i \in 1..Len(s) : s[i] = "/"
    THEN CHOOSE i \in 1..Len(s) : s[i] = "/" /\ \A j \in (i+1)..Len(s) : s[j] # "/"
    ELSE 0

\* server.command.split("/").pop() || server.command
commandBase(command) ==
    LET last == SubSeq(command, LastSlash(command) + 1, Len(command))
    IN  IF Len(last) > 0 THEN last ELSE command

(***************************************************************************)
(* Patterns: grep and pkill.  A pattern is read as a sequence of atoms, a  *)
(* literal character or "any character".  The commands of the model hold   *)
(* none of + ? { } ( ) |, whose escaped form grep reads as an operator.    *)
(***************************************************************************)
RegexSpecials == {".","*","+","?","^","$","{","}","(",")","|","[","]","\\"}

\* mutant: patterns handed to grep as they are
escapeForGrep_None(str) == str

\* str.replace(/[.*+?^${}()|[\]\\]/g, "\\$&")
RECURSIVE escapeForGrep(_)
escapeForGrep(str) ==
    IF Len(str) = 0 THEN <<>>
    ELSE (IF Head(str) \in RegexSpecials THEN <<"\\", Head(str)>> ELSE <<Head(str)>>)
         \o escapeForGrep(Tail(str))

Lit(c) == [any |-> FALSE, ch |-> c]
AnyChar == [any |-> TRUE, ch |-> "."]

\* the atoms of a regular expression: \c is the character c, . is any character
RECURSIVE regexAtoms(_)
regexAtoms(p) ==
    IF Len(p) = 0 THEN <<>>
    ELSE IF Head(p) = "\\" /\ Len(p) >= 2
         THEN <<Lit(p[2])>> \o regexAtoms(SubSeq(p, 3, Len(p)))
    ELSE IF Head(p) = "." THEN <<AnyChar>> \o regexAtoms(Tail(p))
    ELSE <<Lit(Head(p))>> \o regexAtoms(Tail(p))

\* the regular expression p matches somewhere in line
regexFound(p, line) ==
    LET atoms == regexAtoms(p)
    IN  \E i \in 0..(Len(line) - Len(atoms)) :
            \A j \in 1..Len(atoms) : atoms[j].any \/ line[i + j] = atoms[j].ch

Grep == <<"g","r","e","p">>

\* mutant: a probe that tries the basename first
patterns_BasenameFirst(server) ==
    << escapeForGrep(commandBase(server.command)),
       escapeForGrep(server.command),
       escapeForGrep(server.command) \o <<" ">>
           \o joinSpace([i \in 1..Len(server.args) |-> escapeForGrep(server.args[i])]) >>

\* the three patterns of checkServerStatus
patterns(server) ==
    << escapeForGrep(server.command) \o <<" ">>
           \o joinSpace([i \in 1..Len(server.args) |-> escapeForGrep(server.args[i])]),
       escapeForGrep(server.command),
       escapeForGrep(commandBase(server.command)) >>

\* ps aux | grep "pattern" | grep -v grep  prints a line
psGrep(pattern, table) ==
    \E p \in table : regexFound(pattern, p.cmdline) /\ ~Contains(p.cmdline, Grep)

(***************************************************************************)
(* Port extraction of checkPort.  NoPort is the undefined port.            *)
(***************************************************************************)
NoPort == <<>>
DashDashPort == <<"-","-","p","o","r","t">>
DashP == <<"-","p">>

\* the maximal run of digits of s that starts at position i
RECURSIVE digitRun(_, _)
digitRun(s, i) ==
    IF i <= Len(s) /\ s[i] \in Digits THEN <<s[i]>> \o digitRun(s, i + 1) ELSE <<>>

\* the positions where /--port[=\s](\d+)/ matches in arg
portMatchAt(arg) ==
    {i \in 1..Len(arg) :
        /\ i + 7 <= Len(arg)
        /\ SubSeq(arg, i, i + 5) = DashDashPort
        /\ arg[i + 6] \in {"="} \cup Whitespace
        /\ arg[i + 7] \in Digits}

\* mutant: a probe that does not know the --port=<digits> form
portMatch_Never(arg) == NoPort

\* arg.match(/--port[=\s](\d+)/)[1], NoPort when there is no match
portMatch(arg) ==
    IF portMatchAt(arg) = {} THEN NoPort
    ELSE LET i == CHOOSE k \in portMatchAt(arg) : \A m \in portMatchAt(arg) : k <= m
         IN  digitRun(arg, i + 7)

\* server.args.indexOf(arg) + 1, as a position of the 1-based sequence
nextIndexOf(args, arg) ==
    (CHOOSE i \in 1..Len(args) : args[i] = arg /\ \A j \in 1..(i-1) : args[j] # arg) + 1

\* mutant: a flag branch that takes the last token of args
flagPort_LastToken(args, arg) ==
    IF arg \in {DashP, DashDashPort} /\ isAllDigits(args[Len(args)])
    THEN args[Len(args)]
    ELSE NoPort

\* the -p / --port branch
flagPort(args, arg) ==
    IF arg \in {DashP, DashDashPort}
       /\ nextIndexOf(args, arg) <= Len(args)
       /\ isAllDigits(args[nextIndexOf(args, arg)])
    THEN args[nextIndexOf(args, arg)]
    ELSE NoPort

\* the loop of checkPort from position k on
RECURSIVE scanPort(_, _)
scanPort(args, k) ==
    IF k > Len(args) THEN NoPort
    ELSE IF isAllDigits(args[k]) THEN args[k]
    ELSE IF portMatch(args[k]) # NoPort THEN portMatch(args[k])
    ELSE IF flagPort(args, args[k]) # NoPort THEN flagPort(args, args[k])
    ELSE scanPort(args, k + 1)

extractPort(args) == scanPort(args, 1)

\* lsof -i :port  prints a line
lsofPort(port, table) == \E p \in table : p.port = port

(***************************************************************************)
(* The registry document and the server records.                           *)
(***************************************************************************)
Entry(command, args) == [command |-> command, args |-> args]

Put(cfg, k, v) == [x \in (DOMAIN cfg) \cup {k} |-> IF x = k THEN v ELSE cfg[x]]
Del(cfg, k) == [x \in (DOMAIN cfg) \ {k} |-> cfg[x]]
EmptyCfg == [x \in {} |-> Entry(<<>>, <<>>)]

\* JSON.stringify of a string
RECURSIVE jsonEscape(_)
jsonEscape(str) ==
    IF Len(str) = 0 THEN <<>>
    ELSE (IF Head(str) = "\"" THEN <<"\\", "\"">>
          ELSE IF Head(str) = "\\" THEN <<"\\", "\\">>
          ELSE IF Head(str) = "\n" THEN <<"\\", "n">>
          ELSE IF Head(str) = "\t" THEN <<"\\", "t">>
          ELSE <<Head(str)>>) \o jsonEscape(Tail(str))

jsonString(str) == <<"\"">> \o jsonEscape(str) \o <<"\"">>

\* JSON.stringify(list, null, 2) of an array of strings
RECURSIVE jsonItems(_)
jsonItems(list) ==
    IF Len(list) = 0 THEN <<>>
    ELSE <<"\n", " ", " ">> \o jsonString(Head(list))
         \o (IF Len(list) > 1 THEN <<",">> ELSE <<"\n">>) \o jsonItems(Tail(list))

jsonStringify(list) == <<"[">> \o jsonItems(list) \o <<"]">>

\* JSON.parse of the text of an array of strings, from position i on: inStr
\* says that i is inside a string, cur is the string read so far, acc the
\* strings read
RECURSIVE jsonParseFrom(_, _, _, _, _)
jsonParseFrom(text, i, inStr, cur, acc) ==
    IF i > Len(text) THEN acc
    ELSE IF inStr /\ text[i] = "\\" /\ i < Len(text)
         THEN jsonParseFrom(text, i + 2, TRUE,
                            Append(cur, IF text[i+1] = "n" THEN "\n"
                                        ELSE IF text[i+1] = "t" THEN "\t"
                                        ELSE text[i+1]), acc)
    ELSE IF inStr /\ text[i] = "\"" THEN jsonParseFrom(text, i + 1, FALSE, <<>>, Append(acc, cur))
    ELSE IF inStr THEN jsonParseFrom(text, i + 1, TRUE, Append(cur, text[i]), acc)
    ELSE IF text[i] = "\"" THEN jsonParseFrom(text, i + 1, TRUE, <<>>, acc)
    ELSE jsonParseFrom(text, i + 1, FALSE, cur, acc)

jsonParse(text) == jsonParseFrom(text, 1, FALSE, <<>>, <<>>)

\* what is read back of an entry that was written: the same fields, the
\* strings through JSON
stored(entry) ==
    [entry EXCEPT !.command = jsonParse(jsonStringify(<<@>>))[1],
                  !.args = jsonParse(jsonStringify(@))]

\* the document that writeConfigFile(cfg) leaves on disk, as it is read back
Doc(cfg) == [state |-> "ok", mcpServers |-> [k \in DOMAIN cfg |-> stored(cfg[k])]]
MissingFile == [state |-> "missing", mcpServers |-> EmptyCfg]
MalformedFile == [state |-> "malformed", mcpServers |-> EmptyCfg]
\* a missing file in a place where no file can be created
UncreatableFile == [state |-> "uncreatable", mcpServers |-> EmptyCfg]

\* an MCPServer; status "none" and lastConnectionTime 0 are "undefined"
Server(id, name, command, args, status, time) ==
    [id |-> id, name |-> name, command |-> command, args |-> args,
     status |-> status, lastConnectionTime |-> time]
NoServer == Server(<<>>, <<>>, <<>>, <<>>, "none", 0)

\* mutant: a schema that accepts an empty name
schemaOk_CommandOnly(server) == Len(server.command) >= 1

\* MCPServerSchema.parse succeeds
schemaOk(server) == Len(server.name) >= 1 /\ Len(server.command) >= 1

\* configToServers
configToServers(cfg) ==
    {Server(k, k, cfg[k].command, cfg[k].args, "offline", 0) : k \in DOMAIN cfg}

(***************************************************************************)
(* The values the model draws its inputs from.                             *)
(***************************************************************************)
NameA == <<"a">>
NameUpperA == <<"A">>
NameB == <<"b">>

CmdN == <<"n">>
CmdPathN == <<"/","n">>
CmdM == <<"m">>
Port8 == <<"8">>
ArgsNone == <<>>
ArgsPort == <<Port8>>
ArgsFlagPort == <<DashP, Port8>>

\* what a form or a programmatic caller passes to addServer / updateServer:
\* name, command, args
Input(name, command, args) == [name |-> name, command |-> command, args |-> args]
StoreInputs ==
    { Input(NameUpperA, CmdN, ArgsFlagPort),
      Input(NameB, CmdN, ArgsFlagPort),
      Input(<<>>, CmdN, ArgsFlagPort),
      Input(NameB, <<>>, ArgsFlagPort) }

\* the documents the program may find on disk when it starts
InitFiles ==
    { MissingFile, MalformedFile, UncreatableFile,
      Doc(Put(Put(EmptyCfg, NameA, Entry(CmdPathN, ArgsNone)), NameB, Entry(CmdM, ArgsPort))),
      Doc(Put(Put(EmptyCfg, NameUpperA, Entry(CmdN, ArgsNone)), NameA, Entry(CmdM, ArgsNone))) }

\* a process: its command line, how it takes signals, the port it holds
\*   normal: ends on SIGTERM and SIGKILL;  stubborn: ignores SIGTERM;
\*   immune: cannot be signalled by this user
Proc(cmdline, kind, port) == [cmdline |-> cmdline, kind |-> kind, port |-> port]

\* the process tables the program may find when it starts
InitProcs ==
    { {},
      {Proc(<<"x">>, "immune", Port8), Proc(CmdM, "stubborn", NoPort)},
      {Proc(CmdPathN, "immune", NoPort)} }

Tasks == {"t1", "t2"}

(***************************************************************************)
(* A call in progress.  op is the function the caller invoked, fn the      *)
(* lifecycle function now running (restartServer runs stopServer, then     *)
(* startServer), pc the next step, server the argument, upd the record     *)
(* handed to the store function, cfg the config that function holds        *)
(* between its read and its write, trace what the call did so far (a       *)
(* failure toast is followed by its message, the error), ui the handler of *)
(* the list that made the call ("none" when it was made otherwise), and    *)
(* settled whether that handler has run to its end.                        *)
(***************************************************************************)
IdleCall ==
    [op |-> "none", fn |-> "none", force |-> FALSE, pc |-> "idle",
     server |-> NoServer, upd |-> NoServer, cfg |-> EmptyCfg,
     after |-> "none", pidx |-> 0, trace |-> <<>>,
     result |-> "none", err |-> "none",
     ui |-> "none", settled |-> TRUE]

NewCall(op, fn, force, pc, server, upd) ==
    [IdleCall EXCEPT !.op = op, !.fn = fn, !.force = force, !.pc = pc,
                     !.server = server, !.upd = upd]

Log(c, events) == [c EXCEPT !.trace = @ \o events]

\* the call ends; its local config is gone
Finish(c, result, err) ==
    [c EXCEPT !.pc = "done", !.result = result, !.err = err, !.cfg = EmptyCfg,
              !.after = "none", !.pidx = 0]

Count(trace, e) == Cardinality({i \in 1..Len(trace) : trace[i] = e})

\* positions of event e in trace
Positions(trace, e) == {i \in 1..Len(trace) : trace[i] = e}

(***************************************************************************)
(* restartServer: the code around its two calls.                           *)
(***************************************************************************)
\* mutant: a restartServer that shows the failure and returns normally
restartCatch_NoRethrow(c, err) ==
    Finish(Log(c, <<"toast:Failed to Restart Server", err>>), "ok", "none")

\* catch of restartServer
restartCatch(c, err) ==
    Finish(Log(c, <<"toast:Failed to Restart Server", err>>), "fail", err)

\* startServer returned to restartServer
restartReturn(c) ==
    Finish(Log(c, <<"toast:Server Restarted">>), "ok", "none")

\* stopServer returned to restartServer: wait, then startServer(server)
restartAfterStop(c) ==
    [c EXCEPT !.fn = "start", !.pc = "launch", !.upd = NoServer, !.cfg = EmptyCfg]

(***************************************************************************)
(* startServer.                                                            *)
(***************************************************************************)
\* catch of startServer: toast, rethrow
startCatch(c, err) ==
    LET c1 == Log(c, <<"toast:Failed to Start Server", err>>)
    IN  IF c.op = "restart" THEN restartCatch(c1, err) ELSE Finish(c1, "fail", err)

\* mutant: startServer that forgets lastConnectionTime
startUpdated_NoTime(server, now) == [server EXCEPT !.status = "online"]

\* the record startServer hands to updateServer
startUpdated(server, now) ==
    [server EXCEPT !.status = "online", !.lastConnectionTime = now]

\* mutant: startServer that does not look at the probe's answer
startAfterCheck_NoVerify(c, status, now) ==
    [Log(c, <<"updateServer">>) EXCEPT !.upd = startUpdated(c.server, now),
                                            !.pc = "upd_read"]

\* startServer after  status = await checkServerStatus(server)
startAfterCheck(c, status, now) ==
    IF status = "online"
    THEN [Log(c, <<"updateServer">>) EXCEPT !.upd = startUpdated(c.server, now),
                                            !.pc = "upd_read"]
    ELSE startCatch(Log(c, <<"toast:Failed to Verify Server">>), "not verified")

\* updateServer returned to startServer
startReturn(c) ==
    LET c1 == Log(c, <<"toast:Server Started">>)
    IN  IF c.op = "restart" THEN restartReturn(c1) ELSE Finish(c1, "ok", "none")

(***************************************************************************)
(* stopServer.                                                             *)
(***************************************************************************)
\* mutant: a stopServer whose error restartServer does not see
stopCatch_Swallowed(c, err) ==
    LET c1 == Log(c, <<"toast:Failed to Stop Server", err>>)
    IN  IF c.op = "restart" THEN restartAfterStop(c1) ELSE Finish(c1, "fail", err)

\* catch of stopServer: toast, rethrow
stopCatch(c, err) ==
    LET c1 == Log(c, <<"toast:Failed to Stop Server", err>>)
    IN  IF c.op = "restart" THEN restartCatch(c1, err) ELSE Finish(c1, "fail", err)

\* the record stopServer hands to updateServer
stopUpdated(server) == [server EXCEPT !.status = "offline"]

\* "Update server status regardless of actual status"
stopUpdate(c) ==
    [Log(c, <<"updateServer">>) EXCEPT !.upd = stopUpdated(c.server), !.pc = "upd_read"]

\* mutant: stopServer that ignores forceStop
firstSignal_AlwaysTerm(forceStop) == "TERM"

\* the signal stopServer sends first
firstSignal(forceStop) == IF forceStop THEN "KILL" ELSE "TERM"

\* mutant: stopServer that does not escalate
stopAfterCheck1_NoEscalation(c, status) == stopUpdate(c)

\* stopServer after the first  status = await checkServerStatus(server)
stopAfterCheck1(c, status) ==
    IF status = "online" THEN [c EXCEPT !.pc = "kill9"] ELSE stopUpdate(c)

\* mutant: stopServer that fails when the process survived
stopAfterCheck2_Fails(c, finalStatus) ==
    IF finalStatus = "online" THEN stopCatch(Log(c, <<"toast:Warning">>), "not verified")
    ELSE stopUpdate(c)

\* mutant: a stopServer that signals again for as long as the process survives
stopAfterCheck2_Retries(c, finalStatus) ==
    IF finalStatus = "online" THEN [c EXCEPT !.pc = "kill9"] ELSE stopUpdate(c)

\* stopServer after  finalStatus = await checkServerStatus(server)
stopAfterCheck2(c, finalStatus) ==
    IF finalStatus = "online" THEN stopUpdate(Log(c, <<"toast:Warning">>)) ELSE stopUpdate(c)

\* updateServer returned to stopServer
stopReturn(c) ==
    LET c1 == Log(c, <<"toast:Server Stopped">>)
    IN  IF c.op = "restart" THEN restartAfterStop(c1) ELSE Finish(c1, "ok", "none")

(***************************************************************************)
(* Control leaving a store function or the probe.                          *)
(***************************************************************************)
\* an exception raised inside the call c
throwIn(c, err) ==
    IF c.fn = "start" THEN startCatch(c, err)
    ELSE IF c.fn = "stop" THEN stopCatch(c, err)
    ELSE Finish(c, "fail", err)

\* addServer / updateServer / deleteServer returned
returnFromStore(c) ==
    IF c.fn = "start" THEN startReturn(c)
    ELSE IF c.fn = "stop" THEN stopReturn(c)
    ELSE Finish(c, "ok", "none")

\* checkServerStatus resolved with status
resolve(c, status, now) ==
    LET c1 == Log(c, <<status>>)
    IN  IF c.after = "start" THEN startAfterCheck(c1, status, now)
        ELSE IF c.after = "stop1" THEN stopAfterCheck1(c1, status)
        ELSE stopAfterCheck2(c1, status)

\* a call of checkServerStatus(server) begins
beginCheck(c, after) ==
    [Log(c, <<"check">>) EXCEPT !.pc = "check", !.after = after, !.pidx = 1]

(***************************************************************************)
(* The registry store: readConfigFile and the three mutations.             *)
(***************************************************************************)
\* mutant: a read that answers every failure with the default document
readConfigFile_DefaultsOnError(f) ==
    [ok   |-> TRUE,
     cfg  |-> IF f.state = "ok" THEN f.mcpServers ELSE EmptyCfg,
     file |-> IF f.state = "ok" THEN f ELSE Doc(EmptyCfg)]

\* readConfigFile on the document f: whether it returns, what it returns,
\* and the document it leaves (a missing file is created; when it cannot be,
\* or when JSON.parse fails, the error is rethrown)
readConfigFile(f) ==
    [ok   |-> f.state \in {"ok", "missing"},
     cfg  |-> IF f.state = "ok" THEN f.mcpServers ELSE EmptyCfg,
     file |-> IF f.state = "missing" THEN Doc(EmptyCfg) ELSE f]

\* mutant: a lookup that finds every id
hasServer_Always(cfg, id) == TRUE

\* config.mcpServers[id] is truthy
hasServer(cfg, id) == id \in DOMAIN cfg

\* updateServer: the id the record is stored under
updatedId(server) == IF slug(server.name) # server.id THEN slug(server.name) ELSE server.id

\* mutant: an updateServer that stores the record it was given
updateConfig_WholeRecord(cfg, server) == Put(cfg, server.id, server)

\* updateServer: the config it writes
updateConfig(cfg, server) ==
    IF slug(server.name) # server.id
    THEN Put(Del(cfg, server.id), slug(server.name), Entry(server.command, server.args))
    ELSE Put(cfg, server.id, Entry(server.command, server.args))

\* addServer: serverWithId
serverWithId(name, command, args) ==
    Server(slug(name), name, command, args, "offline", 0)

\* addServer: the config it writes
addConfig(cfg, server) == Put(cfg, server.id, Entry(server.command, server.args))

\* deleteServer: the config it writes
deleteConfig(cfg, serverId) == Del(cfg, serverId)

(***************************************************************************)
(* The operating system.                                                   *)
(***************************************************************************)
\* mutant: a launch that leaves the args out
launchLine_NoArgs(server) == server.command

\* the command line of the process that  exec(`${command} ${args.join(" ")} &`)  starts
launchLine(server) ==
    IF Len(server.args) = 0 THEN server.command
    ELSE server.command \o <<" ">> \o joinSpace(server.args)

\* the words the shell splits a command line into
RECURSIVE shellWordsFrom(_, _, _, _)
shellWordsFrom(line, i, cur, acc) ==
    IF i > Len(line) THEN (IF Len(cur) > 0 THEN Append(acc, cur) ELSE acc)
    ELSE IF line[i] \in Whitespace
         THEN shellWordsFrom(line, i + 1, <<>>, IF Len(cur) > 0 THEN Append(acc, cur) ELSE acc)
    ELSE shellWordsFrom(line, i + 1, Append(cur, line[i]), acc)

shellWords(line) == shellWordsFrom(line, 1, <<>>, <<>>)

\* what the launch may do to the process table: nothing (the command is not
\* found, or exits at once), or a new process, whose command line in the
\* process table is its words
launchOutcomes(server) ==
    { [spawned |-> FALSE, new |-> {}],
      [spawned |-> TRUE,
       new |-> {Proc(joinSpace(shellWords(launchLine(server))), "normal", NoPort)}] }

\* the processes that  pkill -<sig> -f "base"  ends
killed(base, sig, table) ==
    {p \in table : /\ regexFound(base, p.cmdline)
                   /\ \/ p.kind = "normal"
                      \/ p.kind = "stubborn" /\ sig = "KILL"}

\* the name of the i-th query of a probe in a trace
queryName(i) == <<"ps1", "ps2", "ps3", "lsof">>[i]

\* the answer of the i-th query of a probe of server
queryFinds(server, i, table) ==
    IF i <= 3 THEN psGrep(patterns(server)[i], table)
    ELSE lsofPort(extractPort(server.args), table)

\* mutant: checkServerStatus that raises when nothing was found
checkCallback_Raises(c, i, found, now) ==
    IF found THEN resolve(c, "online", now)
    ELSE IF i < 3 THEN [c EXCEPT !.pidx = i + 1]
    ELSE IF i = 3 /\ extractPort(c.server.args) # NoPort THEN [c EXCEPT !.pidx = 4]
    ELSE throwIn(c, "probe failed")

\* checkServerStatus: the callback of the i-th query
checkCallback(c, i, found, now) ==
    IF found THEN resolve(c, "online", now)
    ELSE IF i < 3 THEN [c EXCEPT !.pidx = i + 1]
    ELSE IF i = 3 /\ extractPort(c.server.args) # NoPort THEN [c EXCEPT !.pidx = 4]
    ELSE resolve(c, "offline", now)

\* checkServerStatus from the query c.pidx on, against a process table that
\* does not change; fails[i] says that the i-th query itself fails
RECURSIVE runCheck(_, _, _, _)
runCheck(c, fails, table, now) ==
    IF c.pc # "check" THEN c
    ELSE runCheck(checkCallback(Log(c, <<queryName(c.pidx)>>), c.pidx,
                                ~fails[c.pidx] /\ queryFinds(c.server, c.pidx, table), now),
                  fails, table, now)

\* checkServerStatus against a process table that does not change
probeNow(server, table) ==
    IF \E i \in 1..3 : queryFinds(server, i, table) THEN "online"
    ELSE IF extractPort(server.args) # NoPort /\ queryFinds(server, 4, table) THEN "online"
    ELSE "offline"

(***************************************************************************)
(* The steps of the functions, as functions of the call and of the state   *)
(* they read.                                                              *)
(***************************************************************************)
Step(c, f) == [call |-> c, file |-> f]

\* updateServer(c.upd) up to its write: validation, read, lookup, new config
updateServerRead(c, f) ==
    LET r == readConfigFile(f)
    IN  IF ~schemaOk(c.upd) THEN Step(throwIn(c, "invalid"), f)
        ELSE IF ~r.ok THEN Step(throwIn(c, "read error"), r.file)
        ELSE IF ~hasServer(r.cfg, c.upd.id)
             THEN Step(throwIn(Log(c, <<"read">>), "not found"), r.file)
        ELSE Step([Log(c, <<"read">>) EXCEPT !.cfg = updateConfig(r.cfg, c.upd),
                                              !.upd.id = updatedId(c.upd),
                                              !.pc = "write"], r.file)

\* mutant: addServer without its check for an existing id
addServerRead_NoDuplicateCheck(c, f) ==
    LET r == readConfigFile(f)
    IN  IF ~schemaOk(c.upd) THEN Step(throwIn(c, "invalid"), f)
        ELSE IF ~r.ok THEN Step(throwIn(c, "read error"), r.file)
        ELSE Step([Log(c, <<"read">>) EXCEPT !.cfg = addConfig(r.cfg, c.upd),
                                              !.pc = "write"], r.file)

\* addServer up to its write; c.upd is serverWithId
addServerRead(c, f) ==
    LET r == readConfigFile(f)
    IN  IF ~schemaOk(c.upd) THEN Step(throwIn(c, "invalid"), f)
        ELSE IF ~r.ok THEN Step(throwIn(c, "read error"), r.file)
        ELSE IF hasServer(r.cfg, c.upd.id)
             THEN Step(throwIn(Log(c, <<"read">>), "exists"), r.file)
        ELSE Step([Log(c, <<"read">>) EXCEPT !.cfg = addConfig(r.cfg, c.upd),
                                              !.pc = "write"], r.file)

\* deleteServer(c.upd.id) up to its write
deleteServerRead(c, f) ==
    LET r == readConfigFile(f)
    IN  IF ~r.ok THEN Step(throwIn(c, "read error"), r.file)
        ELSE IF ~hasServer(r.cfg, c.upd.id)
             THEN Step(throwIn(Log(c, <<"read">>), "not found"), r.file)
        ELSE Step([Log(c, <<"read">>) EXCEPT !.cfg = deleteConfig(r.cfg, c.upd.id),
                                              !.pc = "write"], r.file)

\* startServer from its exec(command) to its call of checkServerStatus
startLaunch(c, spawned) ==
    beginCheck(Log(c, <<"exec:launch", IF spawned THEN "os:spawned" ELSE "os:launch failed">>),
               "start")

\* stopServer from its first pkill to what follows it
stopSignal(c) ==
    IF firstSignal(c.force) = "KILL" THEN stopUpdate(Log(c, <<"exec:pkill-9">>))
    ELSE beginCheck(Log(c, <<"exec:pkill-15">>), "stop1")

\* stopServer: the pkill -9 of the graceful path and the second probe
stopEscalate(c) == beginCheck(Log(c, <<"exec:pkill-9">>), "stop2")

(***************************************************************************)
(* The state machine.  A call's first step is taken when the call is made. *)
(***************************************************************************)
Init ==
    /\ file \in InitFiles
    /\ procs \in InitProcs
    /\ servers = {}
    /\ calls = [t \in Tasks |-> IdleCall]
    /\ nOps = 0

CanBegin(t) == calls[t].pc \in {"idle", "done"} /\ nOps < MaxOps

\* the caller t makes a call, whose first step leaves the call as c, the
\* document as f and the process table as p; what finished calls left behind
\* (result and trace) is kept until the next call begins
Begin(t, c, f, p) ==
    /\ CanBegin(t)
    /\ calls' = [u \in Tasks |-> IF u = t THEN c
                                 ELSE IF calls[u].pc = "done" THEN IdleCall
                                 ELSE calls[u]]
    /\ file' = f
    /\ procs' = p
    /\ nOps' = nOps + 1
    /\ UNCHANGED servers

\* the UI loads its list: getServers, then checkServerStatus of each record
Revalidate ==
    /\ \A t \in Tasks : calls[t].pc \in {"idle", "done"}
    /\ LET r == readConfigFile(file)
       IN  /\ file' = r.file
           /\ servers' = IF r.ok
                         THEN {[s EXCEPT !.status = probeNow(s, procs)] : s \in configToServers(r.cfg)}
                         ELSE {}
    /\ servers' # servers \/ file' # file
    /\ UNCHANGED <<procs, calls, nOps>>

\* startServer(s)
BeginStart(t) ==
    \E s \in servers : \E o \in launchOutcomes(s) :
        Begin(t, startLaunch(NewCall("start", "start", FALSE, "launch", s, NoServer), o.spawned),
              file, procs \cup o.new)

\* stopServer(s, forceStop)
BeginStop(t) ==
    \E s \in servers, forceStop \in BOOLEAN :
        Begin(t, stopSignal(NewCall("stop", "stop", forceStop, "signal", s, NoServer)),
              file, procs \ killed(commandBase(s.command), firstSignal(forceStop), procs))

\* restartServer(s)
BeginRestart(t) ==
    \E s \in servers :
        Begin(t, stopSignal(NewCall("restart", "stop", FALSE, "signal", s, NoServer)),
              file, procs \ killed(commandBase(s.command), firstSignal(FALSE), procs))

\* addServer({name, command, args})
BeginAdd(t) ==
    \E in \in StoreInputs :
        LET o == addServerRead(NewCall("add", "add", FALSE, "add_read", NoServer,
                                       serverWithId(in.name, in.command, in.args)), file)
        IN  Begin(t, o.call, o.file, procs)

\* updateServer({...s, name, command, args}), as the edit form calls it
BeginUpdate(t) ==
    \E s \in servers, in \in StoreInputs :
        LET o == updateServerRead(
                    NewCall("update", "update", FALSE, "upd_read", s,
                            [s EXCEPT !.name = in.name, !.command = in.command,
                                      !.args = in.args]), file)
        IN  Begin(t, o.call, o.file, procs)

\* deleteServer(s.id)
BeginDelete(t) ==
    \E s \in servers :
        LET o == deleteServerRead(NewCall("delete", "delete", FALSE, "del_read", s, s), file)
        IN  Begin(t, o.call, o.file, procs)

\* restartServer: startServer's exec(command), after stopServer returned
Launch(t) ==
    /\ calls[t].pc = "launch"
    /\ \E o \in launchOutcomes(calls[t].server) :
        /\ procs' = procs \cup o.new
        /\ calls' = [calls EXCEPT ![t] = startLaunch(@, o.spawned)]
    /\ UNCHANGED <<file, servers, nOps>>

\* stopServer: the pkill -9 of the graceful path
Escalate(t) ==
    /\ calls[t].pc = "kill9"
    /\ procs' = procs \ killed(commandBase(calls[t].server.command), "KILL", procs)
    /\ calls' = [calls EXCEPT ![t] = stopEscalate(@)]
    /\ UNCHANGED <<file, servers, nOps>>

\* checkServerStatus, all its queries against the same process table; each
\* query may fail.  The probe ends at the first query that does not fail and
\* finds something, so it is enough to let the queries up to the k-th fail.
Check(t) ==
    /\ calls[t].pc = "check"
    /\ \E k \in 0..4 :
        calls' = [calls EXCEPT ![t] = runCheck(@, [i \in 1..4 |-> i <= k], procs, nOps)]
    /\ UNCHANGED <<file, procs, servers, nOps>>

\* updateServer, called by startServer or stopServer, up to its write
UpdateRead(t) ==
    /\ calls[t].pc = "upd_read"
    /\ LET o == updateServerRead(calls[t], file)
       IN  /\ calls' = [calls EXCEPT ![t] = o.call]
           /\ file' = o.file
    /\ UNCHANGED <<procs, servers, nOps>>

\* writeConfigFile(config), which the file system may refuse
Write(t) ==
    /\ calls[t].pc = "write"
    /\ \E written \in BOOLEAN :
        LET c == calls[t]
        IN  IF written
            THEN /\ file' = Doc(c.cfg)
                 /\ calls' = [calls EXCEPT ![t] = returnFromStore(Log(c, <<"write">>))]
            ELSE /\ file' = file
                 /\ calls' = [calls EXCEPT ![t] = throwIn(Log(c, <<"write failed">>), "write error")]
    /\ UNCHANGED <<procs, servers, nOps>>

LifecycleTasks == {"t1"}
StoreTasks == {"t2"}

Next ==
    \/ Revalidate
    \/ \E t \in LifecycleTasks : BeginStart(t)
    \/ \E t \in LifecycleTasks : BeginStop(t)
    \/ \E t \in LifecycleTasks : BeginRestart(t)
    \/ \E t \in StoreTasks : BeginAdd(t)
    \/ \E t \in StoreTasks : BeginUpdate(t)
    \/ \E t \in StoreTasks : BeginDelete(t)
    \/ \E t \in Tasks : Launch(t)
    \/ \E t \in Tasks : Escalate(t)
    \/ \E t \in Tasks : Check(t)
    \/ \E t \in Tasks : UpdateRead(t)
    \/ \E t \in Tasks : Write(t)

\* In Spec the process table changes only by the steps of the one lifecycle
\* call in progress, so a probe sees one table and is taken in one step.
Spec == Init /\ [][Next]_vars

(***************************************************************************)
(* Reading a trace.                                                        *)
(***************************************************************************)
Events(trace) == Range(trace)

Filter(trace, S) == SelectSeq(trace, LAMBDA e : e \in S)

IsPrefix(a, b) == Len(a) <= Len(b) /\ SubSeq(b, 1, Len(a)) = a

\* the position of the first e in trace, 0 when there is none
FirstPos(trace, e) ==
    IF e \in Events(trace)
    THEN CHOOSE i \in Positions(trace, e) : \A j \in Positions(trace, e) : i <= j
    ELSE 0

\* what the startServer of the call did: the trace from its exec(command) on
StartPart(c) ==
    IF FirstPos(c.trace, "exec:launch") = 0 THEN <<>>
    ELSE SubSeq(c.trace, FirstPos(c.trace, "exec:launch"), Len(c.trace))

\* what the stopServer of the call did: the trace up to startServer's exec
StopPart(c) ==
    IF c.op \notin {"stop", "restart"} THEN <<>>
    ELSE IF FirstPos(c.trace, "exec:launch") = 0 THEN c.trace
    ELSE SubSeq(c.trace, 1, FirstPos(c.trace, "exec:launch") - 1)

\* the stopServer of the call has returned or thrown
StopOver(c) ==
    c.op \in {"stop", "restart"} /\ (c.pc = "done" \/ c.fn = "start")

StoreEvents == {"updateServer", "read", "write", "write failed"}
StoreErrors == {"invalid", "read error", "not found", "write error"}
ProbeResults == {"online", "offline"}

\* the calls that run, or ran, startServer
StartCalls == {t \in Tasks : StartPart(calls[t]) # <<>>}

(***************************************************************************)
(* C1.  Start hands status=online (and lastConnectionTime) to the store    *)
(* only after the probe that follows the launch returned online; when that *)
(* probe returns offline, Start fails and calls no store function: nothing *)
(* is read or written and the record it was given keeps its status.        *)
(***************************************************************************)
C1_StartWritesOnlineOnlyIfProbed ==
    \A t \in StartCalls :
        LET c == calls[t]
            S == StartPart(c)
        IN  /\ "updateServer" \in Events(S) =>
                /\ 0 < FirstPos(S, "check")
                /\ FirstPos(S, "check") < FirstPos(S, "online")
                /\ FirstPos(S, "online") < FirstPos(S, "updateServer")
                /\ "offline" \notin Events(S)
            /\ (c.fn = "start" /\ c.upd.status = "online") => "online" \in Events(S)
            /\ "offline" \in Events(S) =>
                /\ c.pc = "done" /\ c.result = "fail" /\ c.err = "not verified"
                /\ Events(S) \cap StoreEvents = {}
                /\ c.upd = NoServer
                /\ "toast:Server Started" \notin Events(S)

\* a Start whose probe returned offline has failed
C1_Witness ==
    \E t \in StartCalls :
        /\ calls[t].op = "start" /\ calls[t].pc = "done"
        /\ "offline" \in Events(calls[t].trace)
        /\ calls[t].result = "fail"

(***************************************************************************)
(* C8.  When the launch of a Start fails at the OS level, Start reports    *)
(* failure and hands no status to the store.                               *)
(***************************************************************************)
C8_LaunchFailureFailsStart ==
    \A t \in StartCalls :
        LET c == calls[t]
            S == StartPart(c)
        IN  ("os:launch failed" \in Events(S) /\ c.pc = "done") =>
                /\ c.result = "fail"
                /\ "write" \notin Events(S)

StopSkeletonEvents ==
    {"exec:pkill-15", "exec:pkill-9", "check", "online", "offline",
     "toast:Warning", "updateServer"}

\* the process ended on SIGTERM
GracefulEnded ==
    <<"exec:pkill-15", "check", "offline", "updateServer">>
\* the process ended on SIGKILL
GracefulEscalated ==
    <<"exec:pkill-15", "check", "online", "exec:pkill-9", "check", "offline", "updateServer">>
\* the process survived both signals
GracefulSurvived ==
    <<"exec:pkill-15", "check", "online", "exec:pkill-9", "check", "online",
      "toast:Warning", "updateServer">>
GracefulRuns == {GracefulEnded, GracefulEscalated, GracefulSurvived}

\* the calls that run, or ran, stopServer(server, false)
GracefulStops == {t \in Tasks : calls[t].op \in {"stop", "restart"} /\ ~calls[t].force}
\* the calls that run, or ran, stopServer(server, true)
ForceStops == {t \in Tasks : calls[t].op = "stop" /\ calls[t].force}

\* signals, probes and warning of a graceful stop come in the order of one of
\* the three runs, and a stop that is over has made one of them in full
GracefulOrder(c) ==
    LET K == Filter(StopPart(c), StopSkeletonEvents)
    IN  /\ \E run \in GracefulRuns : IsPrefix(K, run)
        /\ StopOver(c) => K \in GracefulRuns

\* stopServer reported success and no failure
StopSucceeded(c) ==
    /\ "write" \in Events(StopPart(c))
    /\ "toast:Server Stopped" \in Events(StopPart(c))
    /\ "toast:Failed to Stop Server" \notin Events(StopPart(c))

\* stopServer failed, and by its call of updateServer
StopFailedInStore(c) ==
    /\ c.pc = "done" /\ c.result = "fail" /\ c.err \in StoreErrors
    /\ "updateServer" \in Events(StopPart(c))
    /\ "write" \notin Events(StopPart(c))
    /\ "toast:Server Stopped" \notin Events(StopPart(c))
    /\ "toast:Failed to Stop Server" \in Events(StopPart(c))

(***************************************************************************)
(* C2.  As stated: in Stop(force=false) one SIGTERM comes first, then one  *)
(* probe; SIGKILL is sent iff that probe reports online, once, followed by *)
(* one more probe; if that probe reports online too, a warning is emitted  *)
(* and Stop completes as a success.                                        *)
(***************************************************************************)
C2_SurvivorNeverFailsStop ==
    \A t \in GracefulStops :
        /\ GracefulOrder(calls[t])
        /\ (StopOver(calls[t])
              /\ Filter(StopPart(calls[t]), StopSkeletonEvents) = GracefulSurvived)
           => StopSucceeded(calls[t])

(***************************************************************************)
(* C2, amended.  The order of signals, probes and warning is as stated;    *)
(* after the warning Stop goes on to updateServer and completes as a       *)
(* success when that call returns; it fails only with that call's error.   *)
(***************************************************************************)
C2_GracefulEscalationOrder ==
    \A t \in GracefulStops :
        /\ GracefulOrder(calls[t])
        /\ (StopOver(calls[t])
              /\ Filter(StopPart(calls[t]), StopSkeletonEvents) = GracefulSurvived)
           => (StopSucceeded(calls[t]) \/ StopFailedInStore(calls[t]))

\* a graceful stop whose process survived both signals warned and succeeded
C2_Witness ==
    \E t \in GracefulStops :
        /\ calls[t].op = "stop" /\ calls[t].pc = "done" /\ calls[t].result = "ok"
        /\ Filter(calls[t].trace, StopSkeletonEvents) = GracefulSurvived

RestartCalls == {t \in Tasks : calls[t].op = "restart"}

\* the last n events of trace
LastEvents(trace, n) ==
    IF Len(trace) < n THEN <<>> ELSE SubSeq(trace, Len(trace) - n + 1, Len(trace))

C4_RestartIsStopThenStart ==
    \A t \in RestartCalls :
        LET c == calls[t]
            T == c.trace
            L == FirstPos(T, "exec:launch")
        IN  /\ ~c.force /\ T[1] = "exec:pkill-15"
            /\ Count(T, "exec:launch") <= 1
            /\ L > 0 =>
                /\ T[L - 1] = "toast:Server Stopped"
                /\ "write" \in Events(StopPart(c))
                /\ "toast:Failed to Stop Server" \notin Events(T)
            /\ "toast:Failed to Stop Server" \in Events(T) =>
                /\ L = 0
                /\ c.pc = "done" /\ c.result = "fail"
                /\ LastEvents(T, 4) = <<"toast:Failed to Stop Server", c.err,
                                        "toast:Failed to Restart Server", c.err>>
            /\ "toast:Failed to Start Server" \in Events(T) =>
                /\ c.pc = "done" /\ c.result = "fail"
                /\ LastEvents(T, 4) = <<"toast:Failed to Start Server", c.err,
                                        "toast:Failed to Restart Server", c.err>>
            /\ (c.result = "ok" \/ "toast:Server Restarted" \in Events(T)) =>
                /\ c.pc = "done" /\ c.result = "ok"
                /\ StopSucceeded(c)
                /\ "toast:Server Started" \in Events(StartPart(c))
                /\ "write" \in Events(StartPart(c))
                /\ "toast:Failed to Start Server" \notin Events(T)
                /\ "toast:Failed to Restart Server" \notin Events(T)
                /\ LastEvents(T, 1) = <<"toast:Server Restarted">>
            /\ c.pc = "done" => c.result \in {"ok", "fail"}

\* a Restart has failed with the failure of its stopServer
C4_Witness ==
    \E t \in RestartCalls :
        /\ calls[t].pc = "done" /\ calls[t].result = "fail"
        /\ "toast:Failed to Stop Server" \in Events(calls[t].trace)
        /\ "exec:launch" \notin Events(calls[t].trace)

(***************************************************************************)
(* Steps that begin a call of a store function.                            *)
(***************************************************************************)
Begins(t, op) ==
    /\ calls[t].pc \in {"idle", "done"}
    /\ nOps' = nOps + 1
    /\ calls'[t].op = op

(***************************************************************************)
(* C5.  addServer with a name whose slug is already a key of the registry  *)
(* fails ("already exists"; a record with an empty command is refused as   *)
(* invalid before that) and leaves the registry as it was.                 *)
(***************************************************************************)
C5_DuplicateAddRejected ==
    [][\A t \in Tasks :
          (/\ Begins(t, "add")
           /\ file.state = "ok"
           /\ slug(calls'[t].upd.name) \in DOMAIN file.mcpServers)
          => /\ calls'[t].pc = "done"
             /\ calls'[t].result = "fail"
             /\ calls'[t].err = IF schemaOk(calls'[t].upd) THEN "exists" ELSE "invalid"
             /\ "write" \notin Events(calls'[t].trace)
             /\ file' = file]_vars

\* an addServer has been refused because the id exists
C5_Witness ==
    \E t \in Tasks :
        /\ calls[t].op = "add" /\ calls[t].pc = "done"
        /\ calls[t].err = "exists"
        /\ file.state = "ok" /\ calls[t].upd.id \in DOMAIN file.mcpServers

(***************************************************************************)
(* C6.  updateServer that renames a record (the slug of the new name is    *)
(* not the record's id) is rejected when the new slug is the key of        *)
(* another entry, and the registry is left as it was.                      *)
(***************************************************************************)
C6_RenameCollisionRejected ==
    [][\A t \in Tasks :
          (/\ Begins(t, "update")
           /\ file.state = "ok"
           /\ schemaOk(calls'[t].upd)
           /\ calls'[t].server.id \in DOMAIN file.mcpServers
           /\ slug(calls'[t].upd.name) # calls'[t].server.id
           /\ slug(calls'[t].upd.name) \in DOMAIN file.mcpServers)
          => /\ calls'[t].pc = "done"
             /\ calls'[t].result = "fail"
             /\ file' = file]_vars

(***************************************************************************)
(* C10.  checkServerStatus always answers, with exactly one of online and  *)
(* offline, and never raises, whatever its queries do: it makes its        *)
(* queries in order, answers online only when a query that did not fail    *)
(* found something, and answers offline once every query it has to make    *)
(* failed or found nothing.                                                *)
(***************************************************************************)
QueryEvents == {"ps1", "ps2", "ps3", "lsof"}

C10_ProbeAlwaysAnswers ==
    [][\A t \in Tasks :
          (calls[t].pc = "check" /\ calls'[t] # calls[t]) =>
             LET c == calls[t]
                 d == calls'[t]
                 new == SubSeq(d.trace, Len(c.trace) + 1, Len(d.trace))
                 Q == Filter(new, QueryEvents)
                 R == Filter(new, ProbeResults)
             IN  /\ IsPrefix(c.trace, d.trace)
                 /\ d.pc # "check"
                 /\ Len(R) = 1
                 /\ IsPrefix(Q \o R, new)
                 /\ Len(Q) >= 1 /\ IsPrefix(Q, <<"ps1", "ps2", "ps3", "lsof">>)
                 /\ R[1] = "online" => queryFinds(c.server, Len(Q), procs)
                 /\ R[1] = "offline" =>
                       Len(Q) = (IF extractPort(c.server.args) = NoPort THEN 3 ELSE 4)
                 /\ d.err \in {"none", "not verified"}]_vars

\* a probe has answered offline, because its queries failed, while a process
\* that it would have found is running
C10_Witness ==
    \E t \in Tasks :
        /\ calls[t].op = "start" /\ calls[t].pc = "done"
        /\ "offline" \in Events(calls[t].trace)
        /\ probeNow(calls[t].server, procs) = "online"

(***************************************************************************)
(* The id derivation on its own: addServer and updateServer over names     *)
(* drawn from every string of at most MaxNameLen characters of             *)
(* NameAlphabet, starting from a registry with one entry.                  *)
(***************************************************************************)
MaxNameLen == 2

NameAlphabet == {"a", "Z", "0", "-", "_", " ", "."}

RECURSIVE StringsUpTo(_, _)
StringsUpTo(alphabet, n) ==
    IF n = 0 THEN {<<>>}
    ELSE LET shorter == StringsUpTo(alphabet, n - 1)
         IN  shorter \cup {Append(w, ch) : w \in shorter, ch \in alphabet}

SlugNames == StringsUpTo(NameAlphabet, MaxNameLen)

SlugInit ==
    /\ file = Doc(Put(EmptyCfg, NameA, Entry(CmdN, ArgsNone)))
    /\ procs = {}
    /\ servers = {}
    /\ calls = [t \in Tasks |-> IdleCall]
    /\ nOps = 0

\* addServer({name, command, args}) for a name of SlugNames
AddNamed(t) ==
    \E name \in SlugNames :
        LET o == addServerRead(NewCall("add", "add", FALSE, "add_read", NoServer,
                                       serverWithId(name, CmdN, ArgsNone)), file)
        IN  Begin(t, o.call, o.file, procs)

\* updateServer({...s, name}) for a name of SlugNames
RenameNamed(t) ==
    \E s \in servers, name \in SlugNames :
        LET o == updateServerRead(
                    NewCall("update", "update", FALSE, "upd_read", s,
                            [s EXCEPT !.name = name]), file)
        IN  Begin(t, o.call, o.file, procs)

SlugNext ==
    \/ Revalidate
    \/ \E t \in StoreTasks : AddNamed(t)
    \/ \E t \in StoreTasks : RenameNamed(t)
    \/ \E t \in StoreTasks : Write(t)

SlugSpec == SlugInit /\ [][SlugNext]_vars

\* s is name lower-cased with every character outside [a-z0-9] replaced by "-"
IsLowerDashed(s, name) ==
    /\ Len(s) = Len(name)
    /\ \A i \in 1..Len(name) :
        LET ch == name[i]
        IN  IF ch \in Range(LowerLetters) \cup Digits THEN s[i] = ch
            ELSE IF ch \in Range(UpperLetters)
                 THEN \E k \in 1..26 : UpperLetters[k] = ch /\ s[i] = LowerLetters[k]
            ELSE s[i] = "-"

\* the store calls that have derived the id of the record they were given
DerivedCalls ==
    {t \in Tasks :
        \/ calls[t].op = "add" /\ calls[t].pc \in {"write", "done"}
        \/ calls[t].op = "update" /\ (calls[t].pc = "write" \/ calls[t].result = "ok")}

(***************************************************************************)
(* C11.  The id addServer stores a record under, and the id updateServer   *)
(* stores it under, is the name lower-cased with every character outside   *)
(* [a-z0-9] replaced by "-": one function of the name, the same in both,   *)
(* which gives its own results back unchanged.                             *)
(***************************************************************************)
C11_IdIsLowerDashedName ==
    /\ \A t \in DerivedCalls :
        LET c == calls[t]
        IN  /\ IsLowerDashed(c.upd.id, c.upd.name)
            /\ c.upd.id = slug(c.upd.name)
            /\ slug(c.upd.id) = c.upd.id
            /\ c.pc = "write" => c.upd.id \in DOMAIN c.cfg
            /\ c.result = "ok" => c.upd.id \in DOMAIN file.mcpServers
    /\ \A t \in Tasks :
        (calls[t].op = "update" /\ calls[t].result = "ok") =>
            calls[t].upd.id = serverWithId(calls[t].upd.name, CmdN, ArgsNone).id

\* an update stored a record under a new id that lower-cased a letter and
\* dashed another character of its name
C11_Witness ==
    \E t \in Tasks :
        LET c == calls[t]
        IN  /\ c.op = "update" /\ c.result = "ok"
            /\ c.upd.id # c.server.id
            /\ \E i \in 1..Len(c.upd.name) : c.upd.name[i] \in Range(UpperLetters)
            /\ \E i \in 1..Len(c.upd.name) :
                  c.upd.name[i] \notin Range(UpperLetters) \cup Range(LowerLetters) \cup Digits
            /\ c.upd.id \in DOMAIN file.mcpServers

(***************************************************************************)
(* The port extraction on its own: one registry entry whose args are drawn *)
(* from every sequence of at most MaxArgs tokens of PortTokens, probed by  *)
(* the UI's load and by stopServer, with or without a process holding      *)
(* port 8.                                                                 *)
(***************************************************************************)
MaxArgs == 3

Port9 == <<"9">>

PortTokens ==
    { Port8, DashP, DashDashPort, <<"x">>, <<"8", "x">>,
      DashDashPort \o <<"=">> \o Port9,
      DashDashPort \o <<" ">> \o Port9 \o <<"0">>,
      DashDashPort \o <<"=">> }

PortArgs == StringsUpTo(PortTokens, MaxArgs)

PortHolder == Proc(<<"x">>, "immune", Port8)

PortInit ==
    /\ \E args \in PortArgs : file = Doc(Put(EmptyCfg, NameA, Entry(CmdN, args)))
    /\ procs \in {{}, {PortHolder}}
    /\ servers = {}
    /\ calls = [t \in Tasks |-> IdleCall]
    /\ nOps = 0

PortNext ==
    \/ Revalidate
    \/ \E t \in LifecycleTasks : BeginStop(t)
    \/ \E t \in LifecycleTasks : Escalate(t)
    \/ \E t \in LifecycleTasks : Check(t)
    \/ \E t \in LifecycleTasks : UpdateRead(t)
    \/ \E t \in LifecycleTasks : Write(t)

PortSpec == PortInit /\ [][PortNext]_vars

\* token holds "--port", then "=" or white space, then a digit, from position i
PortAssignAt(token, i) ==
    /\ i + 7 <= Len(token)
    /\ \A j \in 1..6 : token[i + j - 1] = DashDashPort[j]
    /\ token[i + 6] \in {"=", " ", "\t", "\n"}
    /\ token[i + 7] \in Digits

\* the digits of the leftmost "--port=<digits>" of token
PortAssigned(token) ==
    LET i == CHOOSE k \in 1..Len(token) :
                 PortAssignAt(token, k) /\ \A m \in 1..(k-1) : ~PortAssignAt(token, m)
        j == CHOOSE k \in (i+7)..Len(token) :
                 /\ \A m \in (i+7)..k : token[m] \in Digits
                 /\ (k = Len(token) \/ token[k+1] \notin Digits)
    IN  SubSeq(token, i + 7, j)

\* the k-th token of args yields a port
IsPortToken(args, k) ==
    \/ isAllDigits(args[k])
    \/ \E i \in 1..Len(args[k]) : PortAssignAt(args[k], i)
    \/ args[k] \in {DashP, DashDashPort} /\ k < Len(args) /\ isAllDigits(args[k+1])

\* the port of the first token of args that yields one, NoPort when none does
FirstPort(args) ==
    IF \A k \in 1..Len(args) : ~IsPortToken(args, k) THEN NoPort
    ELSE LET k == CHOOSE i \in 1..Len(args) :
                      IsPortToken(args, i) /\ \A m \in 1..(i-1) : ~IsPortToken(args, m)
         IN  IF isAllDigits(args[k]) THEN args[k]
             ELSE IF \E i \in 1..Len(args[k]) : PortAssignAt(args[k], i)
                  THEN PortAssigned(args[k])
             ELSE args[k+1]

Port8080 == <<"8","0","8","0">>

\* the probe of call c, whose record has args, asks lsof exactly when the
\* process table gave no match and the args yield a port
ProbeAsksPortOnlyIfFound(c) ==
    \A i \in 1..(Len(c.trace) - 1) :
        /\ c.trace[i] = "ps3" =>
              \/ c.trace[i+1] = "online"
              \/ c.trace[i+1] = "lsof" /\ FirstPort(c.server.args) # NoPort
              \/ c.trace[i+1] = "offline" /\ FirstPort(c.server.args) = NoPort
        /\ c.trace[i+1] = "lsof" => c.trace[i] = "ps3"

(***************************************************************************)
(* C12.  The port the probe extracts from args is the port of the first    *)
(* token, in order, that is all digits, or holds --port= or --port<space>  *)
(* followed by digits, or is -p / --port followed by an all-digit token;   *)
(* --port=8080, -p 8080 and 8080 all give 8080; when no token yields a     *)
(* port and the process table gives no match, the probe answers offline    *)
(* and makes no port query.                                                *)
(***************************************************************************)
C12_PortIsFirstCandidate ==
    /\ extractPort(<<DashDashPort \o <<"=">> \o Port8080>>) = Port8080
    /\ extractPort(<<DashP, Port8080>>) = Port8080
    /\ extractPort(<<Port8080>>) = Port8080
    /\ \A k \in DOMAIN file.mcpServers :
          extractPort(file.mcpServers[k].args) = FirstPort(file.mcpServers[k].args)
    /\ \A s \in servers :
          s.status = IF FirstPort(s.args) # NoPort /\ lsofPort(FirstPort(s.args), procs)
                     THEN "online" ELSE "offline"
    /\ \A t \in Tasks : ProbeAsksPortOnlyIfFound(calls[t])

\* a probe of a record whose args repeat a flag found the listener on the
\* port that follows the second flag
C12_Witness ==
    \E t \in Tasks :
        LET c == calls[t]
        IN  /\ c.server.args = <<DashP, DashP, Port8>>
            /\ \E i \in 1..(Len(c.trace) - 1) : c.trace[i] = "lsof" /\ c.trace[i+1] = "online"

\* a probe of a record whose args yield no port answered offline after its
\* third process-table query
C12_WitnessNoPort ==
    \E t \in Tasks :
        LET c == calls[t]
        IN  /\ FirstPort(c.server.args) = NoPort /\ Len(c.server.args) > 0
            /\ \E i \in 1..(Len(c.trace) - 1) : c.trace[i] = "ps3" /\ c.trace[i+1] = "offline"

(***************************************************************************)
(* C13.  updateServer and deleteServer called with an id that is not a key *)
(* of the registry fail ("not found"; a record that is not valid is        *)
(* refused as invalid before the lookup) and leave the registry as it      *)
(* was.  deleteServer of an existing id takes exactly that entry out of    *)
(* the config it read, and its write stores that config.                   *)
(***************************************************************************)
C13_MissingIdRejected ==
    [][\A t \in Tasks :
          /\ (/\ Begins(t, "update") \/ Begins(t, "delete")
              /\ file.state = "ok"
              /\ calls'[t].server.id \notin DOMAIN file.mcpServers)
             => /\ calls'[t].pc = "done"
                /\ calls'[t].result = "fail"
                /\ calls'[t].err = IF calls'[t].op = "update" /\ ~schemaOk(calls'[t].upd)
                                   THEN "invalid" ELSE "not found"
                /\ "write" \notin Events(calls'[t].trace)
                /\ file' = file
          /\ (/\ Begins(t, "delete")
              /\ file.state = "ok"
              /\ calls'[t].server.id \in DOMAIN file.mcpServers)
             => /\ calls'[t].pc = "write"
                /\ DOMAIN calls'[t].cfg = DOMAIN file.mcpServers \ {calls'[t].server.id}
                /\ \A k \in DOMAIN calls'[t].cfg : calls'[t].cfg[k] = file.mcpServers[k]
                /\ file' = file
          /\ (/\ calls[t].op = "delete" /\ calls[t].pc = "write"
              /\ calls'[t].result = "ok")
             => /\ file'.state = "ok"
                /\ file'.mcpServers = calls[t].cfg]_vars

\* an updateServer of a record that is no longer in the registry was refused
C13_Witness ==
    \E t \in Tasks :
        /\ calls[t].op = "update" /\ calls[t].pc = "done"
        /\ calls[t].err = "not found"
        /\ file.state = "ok" /\ calls[t].server.id \notin DOMAIN file.mcpServers
        /\ DOMAIN file.mcpServers # {}

\* a deleteServer removed one entry of a registry of two
C13_WitnessDeleted ==
    \E t \in Tasks :
        /\ calls[t].op = "delete" /\ calls[t].result = "ok"
        /\ file.state = "ok" /\ Cardinality(DOMAIN file.mcpServers) = 1
        /\ calls[t].server.id \notin DOMAIN file.mcpServers

(***************************************************************************)
(* C14.  Start, Stop and Restart of a record whose id is not a key of the  *)
(* registry are rejected before they do anything: the call fails, no       *)
(* process is launched, no signal is sent, the process table and the       *)
(* registry are as they were.                                              *)
(***************************************************************************)
OsEvents == {"exec:launch", "exec:pkill-15", "exec:pkill-9"}

C14_MissingIdLifecycleRejected ==
    [][\A t \in Tasks :
          (/\ Begins(t, "start") \/ Begins(t, "stop") \/ Begins(t, "restart")
           /\ file.state = "ok"
           /\ calls'[t].server.id \notin DOMAIN file.mcpServers)
          => /\ calls'[t].pc = "done"
             /\ calls'[t].result = "fail"
             /\ Events(calls'[t].trace) \cap OsEvents = {}
             /\ procs' = procs
             /\ file' = file]_vars

(***************************************************************************)
(* C15.  addServer and updateServer given an empty name or an empty        *)
(* command fail with a validation error before the registry is read or     *)
(* written: the call ends at once, having done nothing, and the document   *)
(* (a missing one included) and the process table are as they were.        *)
(***************************************************************************)
C15_InvalidRecordRejectedFirst ==
    [][\A t \in Tasks :
          (/\ Begins(t, "add") \/ Begins(t, "update")
           /\ Len(calls'[t].upd.name) = 0 \/ Len(calls'[t].upd.command) = 0)
          => /\ calls'[t].pc = "done"
             /\ calls'[t].result = "fail"
             /\ calls'[t].err = "invalid"
             /\ calls'[t].trace = <<>>
             /\ file' = file
             /\ procs' = procs]_vars

\* an addServer with an empty command was refused while the registry file
\* did not exist, and the file still does not exist
C15_Witness ==
    \E t \in Tasks :
        /\ calls[t].op = "add" /\ calls[t].pc = "done" /\ calls[t].err = "invalid"
        /\ Len(calls[t].upd.command) = 0 /\ Len(calls[t].upd.name) > 0
        /\ file = MissingFile

\* an updateServer with an empty name was refused
C15_WitnessUpdate ==
    \E t \in Tasks :
        /\ calls[t].op = "update" /\ calls[t].pc = "done" /\ calls[t].err = "invalid"
        /\ Len(calls[t].upd.name) = 0
        /\ calls[t].server.id \in DOMAIN file.mcpServers

(***************************************************************************)
(* C16.  Reading the registry when the file is missing returns an empty    *)
(* registry and creates the default empty document (when the file cannot   *)
(* be created the read fails and the file stays missing); reading a file   *)
(* with malformed JSON fails, the error reaches the caller, and the file   *)
(* is left as it was.                                                      *)
(***************************************************************************)
\* the step is the first step of a store call of t that reads the registry
BeginsReading(t) ==
    \/ Begins(t, "add") /\ schemaOk(calls'[t].upd)
    \/ Begins(t, "update") /\ schemaOk(calls'[t].upd)
    \/ Begins(t, "delete")

\* the step is the UI loading its list
Loads == calls' = calls /\ nOps' = nOps /\ procs' = procs

C16_ReadOfMissingOrMalformed ==
    [][/\ \A t \in Tasks :
            /\ (BeginsReading(t) /\ file.state = "missing") =>
                  /\ file' = Doc(EmptyCfg)
                  /\ calls'[t].op = "add" =>
                        /\ calls'[t].pc = "write"
                        /\ DOMAIN calls'[t].cfg = {calls'[t].upd.id}
                  /\ calls'[t].op # "add" => calls'[t].err = "not found"
            /\ (BeginsReading(t) /\ file.state \in {"malformed", "uncreatable"}) =>
                  /\ file' = file
                  /\ calls'[t].pc = "done" /\ calls'[t].result = "fail"
                  /\ calls'[t].err = "read error"
                  /\ calls'[t].trace = <<>>
       /\ Loads =>
            /\ file.state = "missing" => file' = Doc(EmptyCfg) /\ servers' = {}
            /\ file.state \in {"malformed", "uncreatable"} => file' = file /\ servers' = {}
      ]_vars

\* an addServer found no file, and now holds a registry of one entry to
\* write while the default document is on disk
C16_Witness ==
    \E t \in Tasks :
        /\ calls[t].op = "add" /\ calls[t].pc = "write"
        /\ Cardinality(DOMAIN calls[t].cfg) = 1
        /\ file = Doc(EmptyCfg)
        /\ nOps = 1

\* an addServer failed on a malformed file, which is still there
C16_WitnessMalformed ==
    \E t \in Tasks :
        /\ calls[t].op = "add" /\ calls[t].pc = "done" /\ calls[t].err = "read error"
        /\ file = MalformedFile

(***************************************************************************)
(* The args of a record on their way through the registry and into the     *)
(* launch: addServer, updateServer, the list load and startServer over     *)
(* every args sequence of at most MaxLaunchArgs tokens of ArgTokens,       *)
(* starting from a registry with one entry.                                *)
(***************************************************************************)
MaxLaunchArgs == 2

ArgTokens == { <<"x">>, <<"y">>, <<"a", " ", "b">>, <<"\\", "\"">>, <<>> }

ArgLists == StringsUpTo(ArgTokens, MaxLaunchArgs)

ArgsInit ==
    /\ file = Doc(Put(EmptyCfg, NameA, Entry(CmdN, << <<"y">>, <<"\\", "\"">>, <<"x">> >>)))
    /\ procs = {}
    /\ servers = {}
    /\ calls = [t \in Tasks |-> IdleCall]
    /\ nOps = 0

\* addServer({name: "b", command, args}) for args of ArgLists
AddArgs(t) ==
    \E args \in ArgLists :
        LET o == addServerRead(NewCall("add", "add", FALSE, "add_read", NoServer,
                                       serverWithId(NameB, CmdN, args)), file)
        IN  Begin(t, o.call, o.file, procs)

\* updateServer({...s, args}) for args of ArgLists
UpdateArgs(t) ==
    \E s \in servers, args \in ArgLists :
        LET o == updateServerRead(
                    NewCall("update", "update", FALSE, "upd_read", s,
                            [s EXCEPT !.args = args]), file)
        IN  Begin(t, o.call, o.file, procs)

ArgsNext ==
    \/ Revalidate
    \/ \E t \in StoreTasks : AddArgs(t)
    \/ \E t \in StoreTasks : UpdateArgs(t)
    \/ \E t \in LifecycleTasks : BeginStart(t)
    \/ \E t \in Tasks : Check(t)
    \/ \E t \in Tasks : UpdateRead(t)
    \/ \E t \in Tasks : Write(t)

ArgsSpec == ArgsInit /\ [][ArgsNext]_vars

\* the step is a successful write of an addServer or updateServer of t
StoresRecord(t) ==
    /\ calls[t].op \in {"add", "update"} /\ calls[t].pc = "write"
    /\ calls'[t].result = "ok"

\* the step is the first step of a startServer of t whose launch made a process
Launches(t) ==
    Begins(t, "start") /\ "os:spawned" \in Events(calls'[t].trace)

\* a token that the shell reads as one word
IsPlainWord(token) ==
    Len(token) > 0 /\ \A i \in 1..Len(token) : token[i] \notin {" ", "\t", "\n"}

\* the words of the tokens, in the order of the tokens
RECURSIVE WordsOf(_)
WordsOf(tokens) ==
    IF Len(tokens) = 0 THEN <<>> ELSE shellWords(Head(tokens)) \o WordsOf(Tail(tokens))

PairInit ==
    /\ file = Doc(Put(Put(EmptyCfg, NameA, Entry(CmdN, ArgsNone)),
                      NameB, Entry(CmdPathN, ArgsPort)))
    /\ procs = {}
    /\ servers = {}
    /\ calls = [t \in Tasks |-> IdleCall]
    /\ nOps = 0

PairNext ==
    \/ Revalidate
    \/ \E t \in Tasks : BeginStart(t)
    \/ \E t \in Tasks : BeginStop(t)
    \/ \E t \in Tasks : Escalate(t)
    \/ \E t \in Tasks : Check(t)
    \/ \E t \in Tasks : UpdateRead(t)
    \/ \E t \in Tasks : Write(t)

PairSpec == PairInit /\ [][PairNext]_vars

\* the command line, in the process table, of a process launched for server
ProcessLineOf(server) == joinSpace(shellWords(launchLine(server)))

\* the step sends a signal of a stopServer of t
Signals(t) ==
    \/ Begins(t, "stop")
    \/ Begins(t, "restart")
    \/ calls[t].pc = "kill9" /\ calls'[t].pc # "kill9"

(***************************************************************************)
(* C18.  A Stop on record A never terminates a process launched for a      *)
(* different record B: a step of stopServer(A) that sends a signal ends no *)
(* process whose command line is the one B is launched with (and is not    *)
(* the one A is launched with).                                            *)
(***************************************************************************)
C18_StopEndsOnlyOwnProcesses ==
    [][\A t \in Tasks :
          Signals(t) =>
             \A p \in procs \ procs' :
                \A b \in servers :
                   (b.id # calls'[t].server.id /\ p.cmdline = ProcessLineOf(b))
                      => p.cmdline = ProcessLineOf(calls'[t].server)]_vars

(***************************************************************************)
(* C19.  Every Start, Stop and Restart call that fails shows its failure   *)
(* toast, with the error as message, as the last thing it does and throws  *)
(* that error to its caller; a call shows its success toast only when it   *)
(* returns normally; an error raised inside a call (probe not verified,    *)
(* store error) always ends the call as a failure.                         *)
(***************************************************************************)
LifecycleCalls == {t \in Tasks : calls[t].op \in {"start", "stop", "restart"}}

FailureToast(op) ==
    IF op = "start" THEN "toast:Failed to Start Server"
    ELSE IF op = "stop" THEN "toast:Failed to Stop Server"
    ELSE "toast:Failed to Restart Server"

SuccessToast(op) ==
    IF op = "start" THEN "toast:Server Started"
    ELSE IF op = "stop" THEN "toast:Server Stopped"
    ELSE "toast:Server Restarted"

FailureToasts == {FailureToast(op) : op \in {"start", "stop", "restart"}}

\* what is raised inside a lifecycle call
RaisedEvents == {"write failed", "toast:Failed to Verify Server"} \cup StoreErrors

C19_FailuresShownAndRethrown ==
    \A t \in LifecycleCalls :
        LET c == calls[t]
            T == c.trace
        IN  /\ (c.pc = "done" /\ c.result = "fail") =>
                /\ c.err # "none"
                /\ LastEvents(T, 2) = <<FailureToast(c.op), c.err>>
                /\ c.op = "restart" =>
                      \/ LastEvents(T, 4) = <<FailureToast("stop"), c.err, FailureToast("restart"), c.err>>
                      \/ LastEvents(T, 4) = <<FailureToast("start"), c.err, FailureToast("restart"), c.err>>
                /\ SuccessToast(c.op) \notin Events(T)
            /\ (c.pc = "done" /\ c.result = "ok") =>
                /\ LastEvents(T, 1) = <<SuccessToast(c.op)>>
                /\ Events(T) \cap (FailureToasts \cup RaisedEvents) = {}
            /\ SuccessToast(c.op) \in Events(T) => (c.pc = "done" /\ c.result = "ok")
            /\ "toast:Server Started" \in Events(T) =>
                  "toast:Failed to Start Server" \notin Events(T)
            /\ "toast:Server Stopped" \in Events(T) =>
                  "toast:Failed to Stop Server" \notin Events(T)
            /\ Events(T) \cap (FailureToasts \cup RaisedEvents) # {} =>
                  (c.pc = "done" /\ c.result = "fail")

\* a Restart failed in its startServer, after its stopServer had succeeded:
\* both failures are shown and the error is the caller's
C19_Witness ==
    \E t \in LifecycleCalls :
        LET c == calls[t]
        IN  /\ c.op = "restart" /\ c.pc = "done" /\ c.result = "fail"
            /\ c.err = "write error"
            /\ "toast:Server Stopped" \in Events(c.trace)
            /\ LastEvents(c.trace, 4) =
                  <<FailureToast("start"), c.err, FailureToast("restart"), c.err>>

(***************************************************************************)
(* C20.  Whatever calls were made, every entry of the document on disk,    *)
(* and of every config a call is about to write, holds command and args    *)
(* and nothing else: status, lastConnectionTime and metadata do not reach  *)
(* the disk, though startServer and stopServer hand them to updateServer.  *)
(***************************************************************************)
WireFields == {"command", "args"}

C20_OnlyCommandAndArgsOnDisk ==
    /\ \A k \in DOMAIN file.mcpServers : DOMAIN file.mcpServers[k] = WireFields
    /\ \A t \in Tasks :
          \A k \in DOMAIN calls[t].cfg : DOMAIN calls[t].cfg[k] = WireFields

\* a Start handed status online and a lastConnectionTime to updateServer,
\* which wrote the entry
C20_Witness ==
    \E t \in Tasks :
        LET c == calls[t]
        IN  /\ c.op = "start" /\ c.result = "ok"
            /\ c.upd.status = "online" /\ c.upd.lastConnectionTime > 0
            /\ LastEvents(c.trace, 2) = <<"write", "toast:Server Started">>
            /\ c.upd.id \in DOMAIN file.mcpServers
            /\ file.mcpServers[c.upd.id] = Entry(c.upd.command, c.upd.args)

(***************************************************************************)
(* C21.  A probe queries the process table for the full command line,      *)
(* then the bare command, then the basename, in that order; the query      *)
(* after which it answers online is the last it makes and is one that      *)
(* found a match for its own pattern (or a listener, for the port); the    *)
(* port is queried only after the three patterns, and at most once.        *)
(***************************************************************************)
\* the full command line of server, as a pattern
FullLinePattern(server) ==
    escapeForGrep(server.command) \o <<" ">>
        \o joinSpace([i \in 1..Len(server.args) |-> escapeForGrep(server.args[i])])

\* pattern matches a line of the process table that is not a grep
TableHas(pattern, table) ==
    \E p \in table : regexFound(pattern, p.cmdline) /\ ~Contains(p.cmdline, Grep)

C21_PatternsInOrderFirstMatchWins ==
    [][\A t \in Tasks :
          (calls[t].pc = "check" /\ calls'[t] # calls[t]) =>
             LET c == calls[t]
                 new == SubSeq(calls'[t].trace, Len(c.trace) + 1, Len(calls'[t].trace))
                 Q == Filter(new, QueryEvents)
                 n == Len(Q)
                 online == n < Len(new) /\ new[n + 1] = "online"
             IN  /\ Q = SubSeq(<<"ps1", "ps2", "ps3", "lsof">>, 1, n)
                 /\ SubSeq(new, 1, n) = Q
                 /\ Count(new, "lsof") <= 1
                 /\ (online /\ n = 1) => TableHas(FullLinePattern(c.server), procs)
                 /\ (online /\ n = 2) => TableHas(escapeForGrep(c.server.command), procs)
                 /\ (online /\ n = 3) =>
                        TableHas(escapeForGrep(commandBase(c.server.command)), procs)
                 /\ (online /\ n = 4) =>
                        \E p \in procs : p.port = extractPort(c.server.args) /\ p.port # NoPort
                 /\ Count(new, "online") + Count(new, "offline") = 1]_vars

\* a probe answered online after its second query: the table holds the bare
\* command of the record and not its full command line
C21_Witness ==
    \E t \in Tasks :
        LET c == calls[t]
        IN  /\ \E i \in 1..(Len(c.trace) - 3) :
                  SubSeq(c.trace, i, i + 3) = <<"check", "ps1", "ps2", "online">>
            /\ ~TableHas(FullLinePattern(c.server), procs)
            /\ TableHas(escapeForGrep(c.server.command), procs)

(***************************************************************************)
(* Spec with the steps that calls in progress wait for taken eventually:    *)
(* each timer fires, each query of a probe calls back, each read and write *)
(* of the store returns or raises.                                         *)
(***************************************************************************)
\* the steps of a call in progress other than those of its probe
Proceed ==
    \E t \in Tasks : Launch(t) \/ Escalate(t) \/ UpdateRead(t) \/ Write(t)

\* a probe is in progress: the state predicate that ENABLED <<ProbeEnds>>_vars is
Probing == \E t \in Tasks : calls[t].pc = "check"

ProbeEnds == \E t \in Tasks : Check(t)

\* weak fairness of Proceed and of ProbeEnds, the latter written out
LiveSpec ==
    /\ Spec
    /\ WF_vars(Proceed)
    /\ ([]<>(~Probing) \/ []<><<ProbeEnds>>_vars)

\* what a call did so far
LaunchCount(c) == Count(c.trace, "exec:launch")
SignalCount(c) == Count(c.trace, "exec:pkill-15") + Count(c.trace, "exec:pkill-9")
ProbeCount(c) == Count(c.trace, "check")

StepBounds(c) ==
    /\ c.op = "start" =>
          /\ LaunchCount(c) = 1 /\ SignalCount(c) = 0 /\ ProbeCount(c) = 1
          /\ Count(c.trace, "updateServer") <= 1
    /\ c.op = "stop" =>
          /\ LaunchCount(c) = 0 /\ SignalCount(c) \in 1..2 /\ ProbeCount(c) <= 2
          /\ Count(c.trace, "exec:pkill-15") <= 1 /\ Count(c.trace, "exec:pkill-9") <= 1
          /\ Count(c.trace, "updateServer") <= 1
    /\ c.op = "restart" =>
          /\ LaunchCount(c) <= 1 /\ SignalCount(c) \in 1..2 /\ ProbeCount(c) <= 3
          /\ Count(c.trace, "updateServer") <= 2
    /\ c.op \in {"start", "stop", "restart"} =>
          Count(c.trace, "read") <= Count(c.trace, "updateServer")
    /\ Count(c.trace, "write") + Count(c.trace, "write failed") <= Count(c.trace, "read")

(***************************************************************************)
(* C23.  Every Start, Stop and Restart call ends, given that every step it *)
(* waits for is taken: Start makes exactly 1 launch and 1 probe, Stop at   *)
(* most 2 signals and 2 probes, Restart at most 2 signals, 3 probes and 1  *)
(* launch; updateServer is called at most once by Start and by Stop, and   *)
(* reads and writes at most once per call.                                 *)
(***************************************************************************)
C23_LifecycleCallsEndWithinBounds ==
    /\ [](\A t \in Tasks : StepBounds(calls[t]))
    /\ \A t \in Tasks :
          (calls[t].op \in {"start", "stop", "restart"} /\ calls[t].pc # "done")
             ~> (calls[t].pc = "done")

\* a Restart that went through everything it can do, and ended: two signals,
\* three probes, one launch
C23_Witness ==
    \E t \in Tasks :
        LET c == calls[t]
        IN  /\ c.op = "restart" /\ c.pc = "done"
            /\ SignalCount(c) = 2 /\ ProbeCount(c) = 3 /\ LaunchCount(c) = 1

\* the step is the write of the updateServer that a lifecycle call of t made
LifecycleWrites(t) ==
    /\ calls[t].op \in {"start", "stop", "restart"}
    /\ calls[t].pc = "write"
    /\ calls'[t].pc # "write"

(***************************************************************************)
(* C24.  Start, Stop (graceful or force) and Restart of a record obtained  *)
(* from getServers leave the registry mapping as it was: the write of a    *)
(* lifecycle call that runs alone (no other call was made since the        *)
(* program started) leaves the same ids, each with the same command and    *)
(* args.                                                                   *)
(***************************************************************************)
C24_LifecycleLeavesRegistryUnchanged ==
    [][\A t \in Tasks :
          (LifecycleWrites(t) /\ nOps = 1) => file'.mcpServers = file.mcpServers]_vars

(***************************************************************************)
(* C25.  A deleteServer(B) or addServer(C) that completed while an         *)
(* updateServer for another record A was between its read and its write    *)
(* is not undone by A's write: B stays absent, C stays present.            *)
(***************************************************************************)
C25_PendingWriteKeepsOthersChanges ==
    [][\A t \in Tasks : \A u \in Tasks \ {t} :
          LET a == calls[t]
              o == calls[u]
          IN  (/\ a.op \in {"start", "stop", "restart", "update"}
               /\ a.pc = "write" /\ calls'[t].pc # "write"
               /\ o.pc = "done" /\ o.result = "ok"
               /\ o.upd.id # a.upd.id /\ o.upd.id # a.server.id)
              =>
              /\ (o.op = "delete" /\ o.upd.id \notin DOMAIN file.mcpServers)
                    => o.upd.id \notin DOMAIN file'.mcpServers
              /\ (o.op = "add" /\ o.upd.id \in DOMAIN file.mcpServers)
                    => o.upd.id \in DOMAIN file'.mcpServers]_vars

\* the names the state holds: those given to the store and those loaded
NamesInState ==
    {calls[t].upd.name : t \in Tasks} \cup {calls[t].server.name : t \in Tasks}
        \cup {s.name : s \in servers} \cup DOMAIN file.mcpServers

\* the step is a call of updateServer that keeps the name the record was
\* loaded with
UpdatesUnderLoadedName(t) ==
    /\ Begins(t, "update")
    /\ calls'[t].upd.name = calls'[t].server.name

(***************************************************************************)
(* C29.  Deriving the id of a derived id gives it back: slug(slug(n)) =    *)
(* slug(n).  Hence a record created by addServer and loaded by getServers  *)
(* (name = id) that is handed to updateServer under that name takes the    *)
(* branch that does not rename: the config updateServer writes has the     *)
(* keys of the config it read, and the record keeps its id.                *)
(***************************************************************************)
C29_SlugIsIdempotentSoNoRename ==
    [][/\ \A n \in NamesInState : slug(slug(n)) = slug(n)
       /\ \A s \in servers : s.name = s.id /\ updatedId(s) = s.id
       /\ \A t \in Tasks :
             UpdatesUnderLoadedName(t) =>
                LET c == calls'[t]
                IN  /\ c.upd.id = c.server.id
                    /\ c.pc = "write" =>
                          /\ DOMAIN c.cfg = DOMAIN file.mcpServers
                          /\ c.cfg = Put(file.mcpServers, c.server.id,
                                         Entry(c.upd.command, c.upd.args))]_vars

\* updateServer stored, under its id, a record that addServer had created
\* from a name that is not its own id
C29_Witness ==
    \E t \in Tasks :
        LET c == calls[t]
        IN  /\ c.op = "update" /\ c.result = "ok"
            /\ c.upd.name = c.server.name
            /\ c.upd.id = c.server.id
            /\ \E i \in 1..Len(c.upd.id) : c.upd.id[i] = "-"
            /\ c.upd.id \in DOMAIN file.mcpServers

\* token is all digits, or holds --port= / --port<space> followed by digits
YieldsPortAlone(token) ==
    isAllDigits(token) \/ \E i \in 1..Len(token) : PortAssignAt(token, i)

\* the port of the first token of args that yields one by itself
FirstPortAlone(args) ==
    IF \A k \in 1..Len(args) : ~YieldsPortAlone(args[k]) THEN NoPort
    ELSE LET k == CHOOSE i \in 1..Len(args) :
                      YieldsPortAlone(args[i]) /\ \A m \in 1..(i-1) : ~YieldsPortAlone(args[m])
         IN  IF isAllDigits(args[k]) THEN args[k] ELSE PortAssigned(args[k])

\* the args sequences a state holds
ArgsInState ==
    {file.mcpServers[k].args : k \in DOMAIN file.mcpServers}
        \cup {s.args : s \in servers} \cup {calls[t].server.args : t \in Tasks}

\* the -p / --port branch yields a port at some token of args
FlagBranchYields(args) == \E k \in 1..Len(args) : flagPort(args, args[k]) # NoPort

(***************************************************************************)
(* C27.  The -p / --port branch of the port extraction never changes the   *)
(* result: for every args sequence, with the flag once, twice or not at    *)
(* all, the extracted port is that of the first token that is all digits   *)
(* or holds --port= / --port<space> followed by digits, and there is none  *)
(* when no token is of that kind; a probe asks for the port exactly when   *)
(* there is such a token and the process table gave no match.              *)
(***************************************************************************)
C27_FlagBranchIsRedundant ==
    /\ \A args \in ArgsInState : extractPort(args) = FirstPortAlone(args)
    /\ \A args \in ArgsInState : FlagBranchYields(args) => FirstPortAlone(args) # NoPort
    /\ \A t \in Tasks :
          LET c == calls[t]
          IN  \A i \in 1..(Len(c.trace) - 1) :
                 c.trace[i] = "ps3" =>
                    (c.trace[i+1] = "lsof" <=> FirstPortAlone(c.server.args) # NoPort)

\* a probe of a record whose args hold the flag twice, the first followed by
\* digits, asked for that port and found its listener
C27_Witness ==
    \E t \in Tasks :
        LET c == calls[t]
        IN  /\ c.server.args = <<DashDashPort, Port8, DashDashPort>>
            /\ flagPort(c.server.args, c.server.args[1]) = Port8
            /\ \E i \in 1..(Len(c.trace) - 2) :
                  SubSeq(c.trace, i, i + 2) = <<"ps3", "lsof", "online">>

(***************************************************************************)
(* The process-table phase of the probe on its own: one registry entry     *)
(* whose command is a bare name, a path, a name with a "." or a name that  *)
(* ends in "/", with or without an argument, and a process table of at     *)
(* most MaxLines lines, one of which is a grep.  No args holds a port.     *)
(***************************************************************************)
MaxLines == 2

ProbeCommands ==
    { CmdN, CmdPathN, <<"x","/","n">>, <<"n",".">>, <<"n","/">> }

ProbeArgs == { ArgsNone, << <<"y">> >> }

ProbeLines ==
    { CmdN, <<"/","n"," ","y">>, <<"x","/","n">>, <<"n","x">>,
      <<"n","."," ","y">>, <<"n"," ">> \o Grep, CmdM }

ProbeTables ==
    {{Proc(l, "normal", NoPort) : l \in ls} :
        ls \in {x \in SUBSET ProbeLines : Cardinality(x) <= MaxLines}}

ProbeInit ==
    /\ \E command \in ProbeCommands, args \in ProbeArgs :
          file = Doc(Put(EmptyCfg, NameA, Entry(command, args)))
    /\ procs \in ProbeTables
    /\ servers = {}
    /\ calls = [t \in Tasks |-> IdleCall]
    /\ nOps = 0

ProbeNext ==
    \/ Revalidate
    \/ \E t \in LifecycleTasks : BeginStart(t)
    \/ \E t \in LifecycleTasks : Check(t)
    \/ \E t \in LifecycleTasks : UpdateRead(t)
    \/ \E t \in LifecycleTasks : Write(t)

ProbeSpec == ProbeInit /\ [][ProbeNext]_vars

\* a line of table that is not a grep holds the basename of server's command
HasBasename(server, table) ==
    \E p \in table :
        /\ Contains(p.cmdline, commandBase(server.command))
        /\ ~Contains(p.cmdline, Grep)

\* the step ends a probe of t with the answer online
AnswersOnline(t) ==
    /\ calls[t].pc = "check"
    /\ calls'[t] # calls[t]
    /\ Filter(SubSeq(calls'[t].trace, Len(calls[t].trace) + 1, Len(calls'[t].trace)),
              {"online", "offline"}) = <<"online">>

C28_WitnessGrep ==
    \E s \in servers :
        /\ s.status = "offline"
        /\ \E p \in procs : Contains(p.cmdline, commandBase(s.command))
        /\ probeNow(s, procs) = "offline"

(***************************************************************************)
(* The list of ServerList.tsx.  Each caller is a handler of an action of   *)
(* the list: it may ask for confirmation, makes its call, and when the     *)
(* call has returned reloads the list and shows its own toast.  Nothing    *)
(* keeps an action from being taken while the handler of another is        *)
(* waiting.  The list shows the records as last loaded (servers).          *)
(***************************************************************************)
\* mutant: a list that offers Start for every record
offersStart_Always(server) == TRUE

\* server.status === "offline" ? <Start Server> : <Stop Server (graceful)>
offersStart(server) == server.status = "offline"
offersStop(server) == server.status # "offline"

\* server.status === "online" && <Force Stop Server>
offersForceStop(server) == server.status = "online"

\* the call c, made by the handler kind of the list
UiCall(kind, c) == [c EXCEPT !.ui = kind, !.settled = FALSE]

\* confirmAlert answered by the primary action
Confirmed(title) == <<"confirm:" \o title, "confirmed">>

\* a handler whose confirmAlert was dismissed: it returns
declined(kind, server, title) ==
    [Finish(Log(NewCall("declined", "none", FALSE, "idle", server, NoServer),
                <<"confirm:" \o title, "declined">>), "none", "none")
        EXCEPT !.ui = kind]

\* the loader: getServers, then checkServerStatus of each record
loadServers(f, table) ==
    LET r == readConfigFile(f)
    IN  [file    |-> r.file,
         servers |-> IF r.ok
                     THEN {[s EXCEPT !.status = probeNow(s, table)] : s \in configToServers(r.cfg)}
                     ELSE {}]

FirstTask == "t1"

\* the handler of t has run to its end, or t has made no call yet
UiFree(t) ==
    calls[t].pc = "idle" \/ (calls[t].pc = "done" /\ calls[t].settled)

\* the handler t makes a call whose first step leaves the call as c, the
\* document as f and the process table as p; a handler is t1 unless t1 is
\* still running
UiBegin(t, c, f, p) ==
    /\ UiFree(t)
    /\ t = FirstTask \/ ~UiFree(FirstTask)
    /\ nOps < MaxOps
    /\ calls' = [u \in Tasks |-> IF u = t THEN c
                                 ELSE IF calls[u].pc = "done" /\ calls[u].settled THEN IdleCall
                                 ELSE calls[u]]
    /\ file' = f
    /\ procs' = p
    /\ nOps' = nOps + 1
    /\ UNCHANGED servers

\* Start Server
UiStart(t) ==
    \E s \in servers :
        /\ offersStart(s)
        /\ \E o \in launchOutcomes(s) :
              UiBegin(t, startLaunch(UiCall("action",
                                            NewCall("start", "start", FALSE, "launch", s, NoServer)),
                                     o.spawned),
                      file, procs \cup o.new)

\* Stop Server (graceful)
UiStop(t) ==
    \E s \in servers :
        /\ offersStop(s)
        /\ UiBegin(t, stopSignal(UiCall("action",
                                        NewCall("stop", "stop", FALSE, "signal", s, NoServer))),
                   file, procs \ killed(commandBase(s.command), firstSignal(FALSE), procs))

\* Restart Server
UiRestart(t) ==
    \E s \in servers :
        UiBegin(t, stopSignal(UiCall("action",
                                     NewCall("restart", "stop", FALSE, "signal", s, NoServer))),
                file, procs \ killed(commandBase(s.command), firstSignal(FALSE), procs))

\* Force Stop Server
UiForceStop(t) ==
    \E s \in servers, confirmed \in BOOLEAN :
        /\ offersForceStop(s)
        /\ IF confirmed
           THEN UiBegin(t, stopSignal(Log(UiCall("force stop",
                                                 NewCall("stop", "stop", TRUE, "signal", s, NoServer)),
                                          Confirmed("Force Stop Server"))),
                        file, procs \ killed(commandBase(s.command), firstSignal(TRUE), procs))
           ELSE UiBegin(t, declined("force stop", s, "Force Stop Server"), file, procs)

\* handleDeleteServer
UiDelete(t) ==
    \E s \in servers, confirmed \in BOOLEAN :
        IF confirmed
        THEN LET o == deleteServerRead(
                          Log(UiCall("delete", NewCall("delete", "delete", FALSE, "del_read", s, s)),
                              Confirmed("Delete Server")), file)
             IN  UiBegin(t, o.call, o.file, procs)
        ELSE UiBegin(t, declined("delete", s, "Delete Server"), file, procs)

\* servers.filter((server) => server.status === "online")
onlineServers == {s \in servers : s.status = "online"}

\* Force Stop All Servers: every stopServer(server, true) sends its signal
\* when Promise.all maps over the records
UiForceStopAll ==
    /\ \A t \in Tasks : UiFree(t)
    /\ IF onlineServers = {}
       THEN UiBegin(FirstTask,
                    [Finish(Log(NewCall("stop all", "none", FALSE, "idle", NoServer, NoServer),
                                <<"toast:No Servers Running">>), "none", "none")
                        EXCEPT !.ui = "stop all"],
                    file, procs)
       ELSE \E confirmed \in BOOLEAN :
              IF ~confirmed
              THEN UiBegin(FirstTask, declined("stop all", NoServer, "Force Stop All Servers"),
                           file, procs)
              ELSE /\ nOps + Cardinality(onlineServers) <= MaxOps
                   /\ \E who \in [onlineServers -> Tasks] :
                         /\ \A s1, s2 \in onlineServers : who[s1] = who[s2] => s1 = s2
                         /\ calls' =
                              [t \in Tasks |->
                                 IF \E s \in onlineServers : who[s] = t
                                 THEN stopSignal(
                                         Log(UiCall("stop all",
                                                    NewCall("stop", "stop", TRUE, "signal",
                                                            CHOOSE s \in onlineServers : who[s] = t,
                                                            NoServer)),
                                             Confirmed("Force Stop All Servers")))
                                 ELSE IdleCall]
                   /\ procs' = procs \ UNION {killed(commandBase(s.command), firstSignal(TRUE), procs) :
                                                 s \in onlineServers}
                   /\ nOps' = nOps + Cardinality(onlineServers)
                   /\ UNCHANGED <<file, servers>>

\* the toasts of the handlers
handlerSuccess(kind) ==
    IF kind = "force stop" THEN <<"toast:Server Force Stopped">>
    ELSE IF kind = "delete" THEN <<"toast:Server Deleted">>
    ELSE <<>>

handlerFailure(c) ==
    IF c.ui = "force stop" THEN <<"toast:Failed to Force Stop", c.err>>
    ELSE IF c.ui = "delete" THEN <<"toast:Failed to Delete Server", c.err>>
    ELSE <<"toast:Failed to " \o c.op, c.err>>

\* the rest of a handler, after its call: await revalidate() and the success
\* toast, or the catch
Settle(t) ==
    /\ calls[t].pc = "done"
    /\ ~calls[t].settled
    /\ calls[t].ui \in {"action", "force stop", "delete"}
    /\ LET c == calls[t]
           l == loadServers(file, procs)
       IN  IF c.result = "ok"
           THEN /\ file' = l.file
                /\ servers' = l.servers
                /\ calls' = [calls EXCEPT ![t] = [Log(c, handlerSuccess(c.ui)) EXCEPT !.settled = TRUE]]
           ELSE /\ UNCHANGED <<file, servers>>
                /\ calls' = [calls EXCEPT ![t] = [Log(c, handlerFailure(c)) EXCEPT !.settled = TRUE]]
    /\ UNCHANGED <<procs, nOps>>

\* the calls of the Force Stop All in progress
stopAllCalls == {t \in Tasks : calls[t].ui = "stop all" /\ ~calls[t].settled}

\* the rest of Force Stop All: Promise.all rejects with the first call that
\* fails, and resolves when every call has returned
SettleAll ==
    /\ stopAllCalls # {}
    /\ IF \E t \in stopAllCalls : calls[t].pc = "done" /\ calls[t].result = "fail"
       THEN /\ \E t \in stopAllCalls :
                 /\ calls[t].pc = "done" /\ calls[t].result = "fail"
                 /\ calls' = [u \in Tasks |->
                                IF u = t
                                THEN [Log(calls[u], <<"toast:Failed to Stop All Servers", calls[u].err>>)
                                         EXCEPT !.settled = TRUE]
                                ELSE IF u \in stopAllCalls THEN [calls[u] EXCEPT !.settled = TRUE]
                                ELSE calls[u]]
            /\ UNCHANGED <<file, servers>>
       ELSE /\ \A t \in stopAllCalls : calls[t].pc = "done"
            /\ LET l == loadServers(file, procs)
               IN  /\ file' = l.file
                   /\ servers' = l.servers
            /\ calls' = [u \in Tasks |->
                           IF u \in stopAllCalls
                           THEN [Log(calls[u], <<"toast:All Servers Stopped">>) EXCEPT !.settled = TRUE]
                           ELSE calls[u]]
    /\ UNCHANGED <<procs, nOps>>

\* the registries and process tables the list may start from
UiFiles ==
    { Doc(Put(Put(EmptyCfg, NameA, Entry(CmdN, ArgsNone)), NameB, Entry(CmdM, ArgsPort))),
      Doc(Put(Put(EmptyCfg, NameUpperA, Entry(CmdN, ArgsNone)), NameA, Entry(CmdM, ArgsNone))) }

UiProcs ==
    { {}, {Proc(CmdN, "normal", NoPort), Proc(CmdM, "stubborn", NoPort)} }

UiInit ==
    /\ file \in UiFiles
    /\ procs \in UiProcs
    /\ servers = {}
    /\ calls = [t \in Tasks |-> IdleCall]
    /\ nOps = 0

UiNext ==
    \/ Revalidate
    \/ \E t \in Tasks : UiStart(t)
    \/ \E t \in Tasks : UiStop(t)
    \/ \E t \in Tasks : UiRestart(t)
    \/ \E t \in Tasks : UiForceStop(t)
    \/ \E t \in Tasks : UiDelete(t)
    \/ UiForceStopAll
    \/ \E t \in Tasks : Launch(t)
    \/ \E t \in Tasks : Escalate(t)
    \/ \E t \in Tasks : Check(t)
    \/ \E t \in Tasks : UpdateRead(t)
    \/ \E t \in Tasks : Write(t)
    \/ \E t \in Tasks : Settle(t)
    \/ SettleAll

UiSpec == UiInit /\ [][UiNext]_vars

\* a lifecycle call of t is in progress
InProgress(t) ==
    /\ calls[t].op \in {"start", "stop", "restart"}
    /\ calls[t].pc \notin {"idle", "done"}

(***************************************************************************)
(* C22.  No two lifecycle calls (Start, Stop, Restart, Force Stop) on the  *)
(* same record are in progress at the same time.                           *)
(***************************************************************************)
C22_OneLifecycleCallPerRecord ==
    \A t \in Tasks : \A u \in Tasks \ {t} :
        (InProgress(t) /\ InProgress(u)) => calls[t].server.id # calls[u].server.id

\* the step ends a Force Stop All with every call returned
StopAllCompletes ==
    /\ stopAllCalls # {}
    /\ \A t \in stopAllCalls : calls[t].pc = "done"
    /\ \A t \in stopAllCalls : calls'[t].settled

(***************************************************************************)
(* C26.  Force Stop All runs stopServer(server, true) on the records last  *)
(* seen online and on no other; when all have completed the registry holds *)
(* every record that was there before, with its command and args; "All     *)
(* Servers Stopped" is shown only if every call succeeded; with no record  *)
(* seen online no signal is sent.                                          *)
(***************************************************************************)
C26_ForceStopAllKeepsTheRegistry ==
    [][/\ StopAllCompletes =>
             \A s \in servers :
                /\ s.id \in DOMAIN file.mcpServers
                /\ file.mcpServers[s.id] = Entry(s.command, s.args)
       /\ \A t \in Tasks :
             (calls'[t].ui = "stop all" /\ calls'[t] # calls[t] /\ calls[t].ui # "stop all") =>
                /\ calls'[t].op = "stop" =>
                      /\ calls'[t].force
                      /\ calls'[t].server \in onlineServers
                      /\ \A s \in onlineServers : \E u \in Tasks : calls'[u].server = s
                /\ calls'[t].op # "stop" => procs' = procs /\ file' = file
       /\ \A t \in Tasks :
             ("toast:All Servers Stopped" \in Events(calls'[t].trace)) =>
                \A u \in Tasks : calls'[u].ui = "stop all" => calls'[u].result = "ok"]_vars

\* the step is a handler of the list making the call (or declining) of t
HandlerActs(t) ==
    /\ calls'[t] # calls[t]
    /\ nOps' > nOps
    /\ calls'[t].ui # "none"

OsEventsOf(trace) ==
    Events(trace) \cap {"exec:launch", "exec:pkill-15", "exec:pkill-9", "read", "write"}

(***************************************************************************)
(* C30.  The list starts a record only when it last saw it offline, and    *)
(* stops it, gracefully or by force, only when it last saw it online; it   *)
(* restarts records of either status; stopServer(server, true) and         *)
(* deleteServer are called only after the prompt was confirmed, and a      *)
(* prompt that is declined sends no signal and leaves the registry alone.  *)
(***************************************************************************)
C30_ActionsFollowLastSeenStatus ==
    [][\A t \in Tasks :
          HandlerActs(t) =>
             LET c == calls'[t]
                 asked == SubSeq(c.trace, 1, 2)
             IN  /\ c.op = "start" => c.server \in servers /\ c.server.status = "offline"
                 /\ c.op = "stop" => c.server \in servers /\ c.server.status = "online"
                 /\ c.op = "restart" => c.server \in servers
                 /\ (c.op = "stop" /\ c.force) =>
                        asked \in {Confirmed("Force Stop Server"),
                                   Confirmed("Force Stop All Servers")}
                 /\ (c.op = "stop" /\ ~c.force) => c.trace[1] = "exec:pkill-15"
                 /\ c.op = "delete" =>
                        c.server \in servers /\ asked = Confirmed("Delete Server")
                 /\ c.op = "declined" =>
                        /\ procs' = procs /\ file' = file
                        /\ c.pc = "done" /\ OsEventsOf(c.trace) = {}
                        /\ \A u \in Tasks \ {t} : calls'[u] = calls[u] \/ calls'[u] = IdleCall]_vars

\* the prompt of Force Stop was declined for a record seen online, whose
\* process is still there
C30_Witness ==
    \E t \in Tasks :
        LET c == calls[t]
        IN  /\ c.op = "declined" /\ c.ui = "force stop"
            /\ c.server.status = "online"
            /\ psGrep(escapeForGrep(commandBase(c.server.command)), procs)
            /\ c.server.id \in DOMAIN file.mcpServers

\* a Restart was taken on a record seen online, another on a record seen
\* offline
C30_WitnessRestartBoth ==
    \E t, u \in Tasks :
        /\ calls[t].op = "restart" /\ calls[t].server.status = "online"
        /\ calls[u].op = "restart" /\ calls[u].server.status = "offline"

====
